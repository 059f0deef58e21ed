------------------------------ MODULE AuditLog ------------------------------
(* The audit log of ontolith-security: an append-only file of lines chained by hashes, with a copy of   *)
(* the events in memory.  A line is the sequence of its fields; an append that fails or a process that   *)
(* dies leaves any beginning of a line without its newline, and the next append goes on behind it on the *)
(* same line.  A hash is the whole history it stands for: there are no collisions.                        *)
EXTENDS Naturals, FiniteSets, SequencesExt

CONSTANTS
    AuditEvents,    \* the events recorded, functions from EventKeys to strings
    LegacyEvents,   \* sequences of events an old release may have left in the file
    Cuts,           \* the fields at or in which a failing write may end
    MaxAppends,     \* bound on the events recorded
    MaxRestarts     \* bound on the restarts

VARIABLES
    file,         \* the lines, the last one perhaps without a newline
    open_line,    \* the last line has no newline yet
    last_hash,    \* ChainState.last_hash: what the next append continues
    events,       \* InMemoryAuditLog.events
    restarts,     \* counts the restarts
    tried         \* history: the appends, with how they ended

auditVars == <<file, open_line, last_hash, events, restarts, tried>>

Columns == <<"ts", "tenant", "user", "action", "resource", "outcome", "detail", "prev", "hash">>
EventKeys == [i \in 1..7 |-> Columns[i]]
Outcomes == {"allow", "deny", "error"}
Genesis == <<>>    \* eight zero bytes
Torn == "torn"     \* what is read where a value was cut

\* The events, recorded or left by an old release, and a cut leaves at least a part of the first field.
AllEvents == AuditEvents \union UNION {ToSet(old) : old \in LegacyEvents}
ASSUME AuditAssumption ==
    /\ \A event \in AllEvents : event = [key \in ToSet(EventKeys) |-> event[key]] /\ event["outcome"] \in Outcomes
    /\ LegacyEvents \subseteq Seq(AllEvents)
    /\ Cuts \subseteq DOMAIN Columns /\ MaxAppends \in Nat /\ MaxRestarts \in Nat

\* A digest of 8 bytes (fnv, old releases) or 32 bytes (sha).
ChainHash(kind, prev, payload) == Append(prev, <<kind, payload>>)
Payload(event) == [i \in DOMAIN EventKeys |-> event[EventKeys[i]]]

Field(key, value) == [key |-> key, value |-> value, torn |-> FALSE]
LineOf(kind, event, prev) ==
    [i \in DOMAIN Columns |-> Field(Columns[i], CASE Columns[i] = "prev" -> prev
                                                  [] Columns[i] = "hash" -> ChainHash(kind, prev, Payload(event))
                                                  [] OTHER -> event[Columns[i]])]

\* The beginnings of a line: cut after a field or within its value.
Beginnings(line) ==
    {SubSeq(line, 1, n) : n \in Cuts}
        \union {Append(SubSeq(line, 1, n - 1), [line[n] EXCEPT !.torn = TRUE,
                       !.value = IF n <= Len(EventKeys) THEN Torn ELSE @]) : n \in Cuts}

-----------------------------------------------------------------------------
(* reading a line *)

\* str::find of a quoted key also meets a value that is spelled like it.
SpelledAt(line, i, key) == line[i].key = key \/ (line[i].key \in ToSet(EventKeys) /\ line[i].value = key)
First(line, key) == CHOOSE i \in DOMAIN line : SpelledAt(line, i, key) /\ \A j \in 1..(i - 1) : ~SpelledAt(line, j, key)

\* A value needs its closing quote, which the next line on the same line may bring, and the chain fields are hexadecimal.
Readable(line, key) ==
    /\ \E i \in DOMAIN line : SpelledAt(line, i, key)
    /\ LET found == line[First(line, key)]
       IN  /\ found.key = key
           /\ found.torn => First(line, key) < Len(line) /\ key \in ToSet(EventKeys)
Text(line, key) == IF Readable(line, key) THEN line[First(line, key)].value ELSE ""
HasEvent(line) == \A key \in ToSet(EventKeys) \ {"detail"} : Readable(line, key)
HasMeta(line) == HasEvent(line) /\ Readable(line, "prev") /\ Readable(line, "hash")
Prev(line) == line[First(line, "prev")].value
Hash(line) == line[First(line, "hash")].value
EventRead(line) == [key \in ToSet(EventKeys) |-> Text(line, key)]

\* verify_chain: the kind of digest is told by its length.
Verified(lines, n) ==
    LET line == lines[n]
        kind == Last(Hash(line))[1]
    IN  /\ HasMeta(line)
        /\ Hash(line) = ChainHash(kind, Prev(line), Payload(EventRead(line)))
        /\ Prev(line) = IF n = 1 THEN Genesis ELSE Hash(lines[n - 1])
BrokenAt(lines) == {n \in DOMAIN lines : ~Verified(lines, n) /\ \A m \in 1..(n - 1) : Verified(lines, m)}
VerifyOk(lines) == BrokenAt(lines) = {}

\* A slip a change of the code could make, for the mutation runs.
FirstDigest(lines) == LET chained == {n \in DOMAIN lines : HasMeta(lines[n])} IN IF chained = {} THEN Genesis ELSE Hash(lines[Min(chained)])

\* load_tail(0), and the digest a reopened file continues: of the last line with chain fields.
Nth(numbers, k) == CHOOSE n \in numbers : Cardinality({m \in numbers : m <= n}) = k
LoadTail(lines) ==
    LET parsed == {n \in DOMAIN lines : HasEvent(lines[n]) /\ Text(lines[n], "outcome") \in Outcomes}
    IN  [k \in 1..Cardinality(parsed) |-> EventRead(lines[Nth(parsed, k)])]
LastWrittenDigest(lines) ==
    LET chained == {n \in DOMAIN lines : HasMeta(lines[n])} IN IF chained = {} THEN Genesis ELSE Hash(lines[Max(chained)])

\* InMemoryAuditLog::events and len.
EventsShown == IF LoadTail(file) # <<>> THEN LoadTail(file) ELSE events

-----------------------------------------------------------------------------
\* What one process of an old release left, each line with the digest of the line before.
LegacyFile(old) == [n \in DOMAIN old |-> LineOf("fnv", old[n], [m \in 1..(n - 1) |-> <<"fnv", Payload(old[m])>>])]

AuditInit ==
    /\ \E old \in LegacyEvents :
          /\ file = LegacyFile(old)
          /\ tried = [n \in DOMAIN old |-> [event |-> old[n], kept |-> TRUE, fresh |-> TRUE]]
    /\ last_hash = LastWrittenDigest(file)
    /\ open_line = FALSE /\ events = <<>> /\ restarts = 0

\* A slip a change of the code could make, for the mutation runs.
ChainOnFailed(event) == last_hash' = ChainHash("sha", last_hash, Payload(event))

Writing(text) == file' = IF open_line THEN [file EXCEPT ![Len(file)] = @ \o text] ELSE Append(file, text)
Tried(event, kept) == tried' = Append(tried, [event |-> event, kept |-> kept, fresh |-> ~open_line])
LastHashAfter(event) == last_hash' = ChainHash("sha", last_hash, Payload(event))
LastHashKept(event) == UNCHANGED last_hash

\* record: the file first, then the copy in memory.
RecordAppended(event) ==
    /\ Len(tried) < MaxAppends
    /\ Writing(LineOf("sha", event, last_hash))
    /\ open_line' = FALSE
    /\ LastHashAfter(event)
    /\ events' = Append(events, event)
    /\ Tried(event, TRUE)
    /\ UNCHANGED restarts

\* The write fails, with nothing or a beginning of the line in the file; record ignores the error.
RecordFailed(event) ==
    /\ Len(tried) < MaxAppends
    /\ \/ UNCHANGED <<file, open_line>>
       \/ \E text \in Beginnings(LineOf("sha", event, last_hash)) : Writing(text) /\ open_line' = TRUE
    /\ LastHashKept(event)
    /\ events' = Append(events, event)
    /\ Tried(event, FALSE)
    /\ UNCHANGED restarts

\* FileAuditLog::open in a new process.
AuditRestart ==
    /\ restarts < MaxRestarts
    /\ restarts' = restarts + 1
    /\ last_hash' = LastWrittenDigest(file)
    /\ events' = <<>>
    /\ UNCHANGED <<file, open_line, tried>>

AuditNext ==
    \/ \E event \in AuditEvents : RecordAppended(event) \/ RecordFailed(event)
    \/ AuditRestart

AuditSpec == AuditInit /\ [][AuditNext]_auditVars

-----------------------------------------------------------------------------
(* properties *)

Misleads(value, i) == \E j \in DOMAIN Columns : i < j /\ value = Columns[j]
Spelling(event) == \E i \in DOMAIN EventKeys : Misleads(event[EventKeys[i]], i)
Damaged(line) ==
    \/ [i \in DOMAIN line |-> line[i].key] # Columns
    \/ \E i \in DOMAIN line : line[i].torn \/ (i \in DOMAIN EventKeys /\ Misleads(line[i].value, i))
EventsOf(numbers) == [n \in numbers |-> tried[n].event]
Within(some, all) ==
    \E at \in [DOMAIN some -> DOMAIN all] : \A m, n \in DOMAIN some : all[at[n]] = some[n] /\ (m < n => at[m] < at[n])
EachKept == \A n \in DOMAIN tried : tried[n].kept /\ ~Spelling(tried[n].event)
KeptFresh == {n \in DOMAIN tried : tried[n].kept /\ tried[n].fresh}

\* As long as every append is written and no value is spelled like a field behind it, the chain verifies,
\* across restarts and the change of the digest, and the events are read back in order (append, load_tail).
CleanLogComplete == EachKept => VerifyOk(file) /\ LoadTail(file) = EventsOf(DOMAIN tried)

\* verify_chain never blames a line when no line up to it was damaged, whatever failed and restarted since.
NoFalseAlarm == \A n \in BrokenAt(file) : \E m \in 1..n : Damaged(file[m])

\* In a file that verifies, the events read are events somebody recorded, in their order, also where two
\* lines were run together, and only events that were appended to an unfinished line may be missing.
VerifiedIsGenuine ==
    VerifyOk(file) => /\ Within(LoadTail(file), EventsOf(DOMAIN tried))
                      /\ Within(EventsOf(KeptFresh), LoadTail(file))

AuditSafe == CleanLogComplete /\ NoFalseAlarm /\ VerifiedIsGenuine
=============================================================================
