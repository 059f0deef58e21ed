--------------------------- MODULE ServicesProofs ----------------------------
(* The services around the store: what the runs check of the audit log, the tenants' registry, the      *)
(* provider's keys, the gateway and the backup scheduler, for any tenants, callers, threads, traffic and  *)
(* bounds.                                                                                                *)
EXTENDS MCServices, NatSetTheorems, SequenceTheorems, TLAPS

-----------------------------------------------------------------------------
(***************************************************************************)
(* The audit log.                                                          *)

Kinds == {"sha", "fnv"}
Digests == Seq(Kinds \X {Payload(event) : event \in AllEvents})
Values == Digests \union {Torn} \union {event[key] : event \in AllEvents, key \in ToSet(EventKeys)}
Fields == {f \in [key : ToSet(Columns), value : Values, torn : BOOLEAN] : f.key \in {"prev", "hash"} => f.value \in Digests}

Attempts == [event : AllEvents, kept : BOOLEAN, fresh : BOOLEAN]

AuditTypes ==
    /\ file \in Seq(Seq(Fields)) /\ \A n \in DOMAIN file : file[n] # <<>>
    /\ last_hash \in Digests /\ open_line \in BOOLEAN /\ (open_line => file # <<>>)
    /\ tried \in Seq(Attempts)

\* A line that was written in one go, and whose it is.
LineFor(line, event) == \E kind \in Kinds, prev \in Digests : line = LineOf(kind, event, prev)
Whole(line) == \E event \in AllEvents : LineFor(line, event)
LinesShaped == \A n \in DOMAIN file : Whole(file[n]) \/ Damaged(file[n])

\* As long as nothing is damaged the lines are chained, and the next one will be.
IntactTo(n) == \A m \in 1..n : ~Damaged(file[m])
Tip(n) == IF n = 0 THEN Genesis ELSE Hash(file[n])
Chained ==
    /\ \A n \in DOMAIN file : IntactTo(n) => Prev(file[n]) = Tip(n - 1)
    /\ IntactTo(Len(file)) /\ ~open_line => last_hash = Tip(Len(file))

\* The lines were written one after the other: the appends since the line before and up to end[n] made line n.
HashedBy(value, event) == \E kind \in Kinds, prev \in Digests : value = ChainHash(kind, prev, Payload(event))
Chronicle(end) ==
    /\ \A n \in DOMAIN file : end[n - 1] < end[n]
    /\ \A n \in DOMAIN file : \A i \in DOMAIN file[n] :
          file[n][i].key = "hash" => \E a \in (end[n - 1] + 1)..end[n] : HashedBy(file[n][i].value, tried[a].event)
    /\ \A a \in KeptFresh : \E n \in DOMAIN file : end[n] = a /\ LineFor(file[n], tried[a].event)
    /\ open_line => end[Len(file)] \notin KeptFresh
Chronicled == \E end \in [0..Len(file) -> 0..Len(tried)] : Chronicle(end)

\* While every append is written, each has its line.
LineEach ==
    EachKept => ~open_line /\ Len(file) = Len(tried) /\ \A n \in DOMAIN file : LineFor(file[n], tried[n].event)

AuditInv == AuditTypes /\ LinesShaped /\ Chained /\ Chronicled /\ LineEach

\* The columns of a line.
LEMMA ColumnsAre ==
    /\ DOMAIN EventKeys = 1..7 /\ DOMAIN Columns = 1..9 /\ Len(Columns) = 9
    /\ \A i \in 1..7 : Columns[i] = EventKeys[i] /\ Columns[i] \notin {"prev", "hash"}
    /\ Columns[8] = "prev" /\ Columns[9] = "hash" /\ Columns[1] = "ts" /\ EventKeys[6] = "outcome"
    /\ \A i, j \in 1..9 : Columns[i] = Columns[j] => i = j
    /\ ToSet(EventKeys) = {EventKeys[i] : i \in 1..7} /\ ToSet(Columns) = {Columns[i] : i \in 1..9}
    /\ "prev" \notin ToSet(EventKeys) /\ "hash" \notin ToSet(EventKeys)
  <1>1. Columns = <<"ts", "tenant", "user", "action", "resource", "outcome", "detail", "prev", "hash">>
    BY DEF Columns
  <1>2. EventKeys = [i \in 1..7 |-> Columns[i]]
    BY DEF EventKeys
  <1>3. DOMAIN EventKeys = 1..7 /\ DOMAIN Columns = 1..9 /\ Len(Columns) = 9
    BY <1>1, <1>2
  <1>4. \A i \in 1..7 : Columns[i] = EventKeys[i] /\ Columns[i] \notin {"prev", "hash"}
    BY <1>1, <1>2
  <1>5. Columns[8] = "prev" /\ Columns[9] = "hash" /\ Columns[1] = "ts" /\ EventKeys[6] = "outcome"
    BY <1>1, <1>2
  <1>6. \A i, j \in 1..9 : Columns[i] = Columns[j] => i = j
    BY <1>1
  <1>7. ToSet(EventKeys) = {EventKeys[i] : i \in 1..7} /\ ToSet(Columns) = {Columns[i] : i \in 1..9}
    BY <1>3 DEF ToSet
  <1> QED
    BY <1>3, <1>4, <1>5, <1>6, <1>7

\* The links of a chain of hashes.
LEMMA HashTold ==
    ASSUME NEW k1 \in Kinds, NEW k2, NEW p1 \in Digests, NEW p2 \in Digests, NEW e1 \in AllEvents, NEW x2,
           ChainHash(k1, p1, Payload(e1)) = ChainHash(k2, p2, x2)
    PROVE  k1 = k2 /\ p1 = p2 /\ Payload(e1) = x2
  <1> DEFINE links == Kinds \X {Payload(event) : event \in AllEvents}
             one == <<k1, Payload(e1)>>
             two == <<k2, x2>>
             all == links \union {one, two}
  <1>1. Append(p1, one) = Append(p2, two)
    BY DEF ChainHash
  <1>2. p1 \in Seq(all) /\ p2 \in Seq(all)
    BY SeqMonotonic DEF Digests
  <1>3. one \in all /\ two \in all
    OBVIOUS
  <1> HIDE DEF all, one, two
  <1>4. p1 = p2 /\ one = two
    BY <1>1, <1>2, <1>3, AppendInjective
  <1> QED
    BY <1>4 DEF one, two

\* A hash is a digest, and its last link tells the kind.
LEMMA HashShape ==
    ASSUME NEW kind \in Kinds, NEW prev \in Digests, NEW event \in AllEvents
    PROVE  LET h == ChainHash(kind, prev, Payload(event)) IN h \in Digests /\ Last(h)[1] = kind
  <1> DEFINE h == ChainHash(kind, prev, Payload(event))
             link == <<kind, Payload(event)>>
             links == Kinds \X {Payload(e) : e \in AllEvents}
  <1>1. link \in links /\ prev \in Seq(links)
    BY DEF Digests
  <1>2. h = Append(prev, link)
    BY DEF ChainHash
  <1> HIDE DEF links, link
  <1>3. Append(prev, link) \in Seq(links) /\ Len(Append(prev, link)) = Len(prev) + 1 /\ Append(prev, link)[Len(prev) + 1] = link
    BY <1>1
  <1>4. Last(h) = link
    BY <1>2, <1>3 DEF Last
  <1>5. h \in Digests
    BY <1>2, <1>3 DEF links, Digests
  <1>6. Last(h)[1] = kind
    BY <1>4 DEF link
  <1> QED
    BY <1>5, <1>6

\* A line that was written in one go has the columns and their values.
Laid(line, kind, event, prev) ==
    /\ line \in Seq(Fields) /\ Len(line) = 9 /\ DOMAIN line = 1..9
    /\ \A i \in 1..9 : line[i].key = Columns[i] /\ line[i].torn = FALSE
    /\ \A i \in 1..7 : line[i].value = event[EventKeys[i]]
    /\ line[8].value = prev /\ line[9].value = ChainHash(kind, prev, Payload(event))

\* So it is laid out.
LEMMA LineHas ==
    ASSUME NEW kind \in Kinds, NEW prev \in Digests, NEW event \in AllEvents
    PROVE  Laid(LineOf(kind, event, prev), kind, event, prev)
  <1>0. PICK line : line = LineOf(kind, event, prev)
    OBVIOUS
  <1> DEFINE value(i) == CASE Columns[i] = "prev" -> prev
                           [] Columns[i] = "hash" -> ChainHash(kind, prev, Payload(event))
                           [] OTHER -> event[Columns[i]]
  <1>1. DOMAIN line = 1..9 /\ \A i \in 1..9 : line[i] = [key |-> Columns[i], value |-> value(i), torn |-> FALSE]
    BY <1>0, ColumnsAre DEF LineOf, Field
  <1>2. value(8) = prev
    BY ColumnsAre
  <1>3. value(9) = ChainHash(kind, prev, Payload(event))
    BY ColumnsAre
  <1>4. \A i \in 1..7 : value(i) = event[EventKeys[i]] /\ Columns[i] = EventKeys[i] /\ Columns[i] \notin {"prev", "hash"}
    BY ColumnsAre
  <1>5. ChainHash(kind, prev, Payload(event)) \in Digests
    BY HashShape
  <1> HIDE DEF value
  <1>6. \A i \in 1..9 : value(i) \in Values /\ (Columns[i] \in {"prev", "hash"} => value(i) \in Digests)
    <2>1. \A i \in 1..7 : value(i) \in Values
      BY <1>4, ColumnsAre DEF Values
    <2>2. value(8) \in Digests /\ value(9) \in Digests /\ Digests \subseteq Values
      BY <1>2, <1>3, <1>5 DEF Values
    <2>3. \A i \in 1..9 : i \in 1..7 \/ i = 8 \/ i = 9
      OBVIOUS
    <2> QED
      BY <1>4, <2>1, <2>2, <2>3
  <1>7. \A i \in 1..9 : line[i] \in Fields
    <2>1. SUFFICES ASSUME NEW i \in 1..9 PROVE line[i] \in Fields
      OBVIOUS
    <2>2. line[i] = [key |-> Columns[i], value |-> value(i), torn |-> FALSE] /\ Columns[i] \in ToSet(Columns) /\ value(i) \in Values
      BY <1>1, <1>6, ColumnsAre
    <2>3. line[i] \in [key : ToSet(Columns), value : Values, torn : BOOLEAN] /\ line[i].key = Columns[i] /\ line[i].value = value(i)
      BY <2>2
    <2> QED
      BY <1>6, <2>3 DEF Fields
  <1>8. line \in Seq(Fields) /\ Len(line) = 9
    <2>1. line = [i \in 1..9 |-> line[i]]
      BY <1>0, <1>1 DEF LineOf
    <2> QED
      BY <1>7, <2>1, IsASeq
  <1> QED
    BY <1>0, <1>1, <1>2, <1>3, <1>4, <1>8, ColumnsAre DEF Laid

\* The first column spelled so is one.
LEMMA FirstFound ==
    ASSUME NEW n \in Nat, NEW line, DOMAIN line = 1..n, NEW key, \E i \in DOMAIN line : SpelledAt(line, i, key)
    PROVE  /\ First(line, key) \in DOMAIN line /\ SpelledAt(line, First(line, key), key)
           /\ \A j \in 1..(First(line, key) - 1) : ~SpelledAt(line, j, key)
  <1> DEFINE all == {i \in 1..n : SpelledAt(line, i, key)}
  <1>1. all \in SUBSET Nat /\ all # {}
    OBVIOUS
  <1>2. PICK i \in all : \A j \in all : i <= j
    BY <1>1, LeastElement
  <1>3. i \in DOMAIN line /\ SpelledAt(line, i, key) /\ \A j \in 1..(i - 1) : ~SpelledAt(line, j, key)
    BY <1>2
  <1> QED
    BY <1>3 DEF First

\* It is the one before which no other is spelled so.
LEMMA FirstIs ==
    ASSUME NEW n \in Nat, NEW line, DOMAIN line = 1..n, NEW key, NEW i \in 1..n, SpelledAt(line, i, key),
           \A j \in 1..(i - 1) : ~SpelledAt(line, j, key)
    PROVE  First(line, key) = i
  <1>1. First(line, key) \in 1..n /\ SpelledAt(line, First(line, key), key) /\ \A j \in 1..(First(line, key) - 1) : ~SpelledAt(line, j, key)
    BY FirstFound
  <1> QED
    BY <1>1

\* A line that holds a hash holds it in its own column, and what came before it too.
LEMMA MetaFound ==
    ASSUME NEW line \in Seq(Fields), HasMeta(line)
    PROVE  /\ Prev(line) \in Digests /\ Hash(line) \in Digests
           /\ \E i \in DOMAIN line : line[i].key = "hash" /\ Hash(line) = line[i].value
  <1>1. Len(line) \in Nat /\ DOMAIN line = 1..Len(line) /\ \A i \in DOMAIN line : line[i] \in Fields
    OBVIOUS
  <1>2. \A key \in {"prev", "hash"} : First(line, key) \in DOMAIN line /\ line[First(line, key)].key = key
    BY <1>1, FirstFound DEF HasMeta, Readable
  <1> QED
    BY <1>1, <1>2 DEF Prev, Hash, Fields

\* A line that was written in one go is damaged by misleading values only.
LEMMA LineDamage ==
    ASSUME NEW kind \in Kinds, NEW prev \in Digests, NEW event \in AllEvents, NEW line, line = LineOf(kind, event, prev)
    PROVE  Damaged(line) <=> Spelling(event)
  <1>0. Laid(line, kind, event, prev)
    BY LineHas
  <1>1. /\ DOMAIN line = 1..9 /\ \A i \in 1..9 : line[i].key = Columns[i] /\ line[i].torn = FALSE
        /\ \A i \in 1..7 : line[i].value = event[EventKeys[i]]
    BY <1>0 DEF Laid
  <1>2. DOMAIN Columns = 1..9 /\ Columns = [i \in 1..9 |-> Columns[i]] /\ DOMAIN EventKeys = 1..7
    BY ColumnsAre DEF Columns
  <1>3. [i \in DOMAIN line |-> line[i].key] = Columns
    BY <1>1, <1>2
  <1>4. \A i \in 1..7 : i \in 1..9
    OBVIOUS
  <1>5. Damaged(line) <=> \E i \in 1..7 : Misleads(line[i].value, i)
    BY <1>1, <1>2, <1>3, <1>4 DEF Damaged
  <1>6. Spelling(event) <=> \E i \in 1..7 : Misleads(event[EventKeys[i]], i)
    BY <1>2 DEF Spelling
  <1> QED
    BY <1>1, <1>5, <1>6

\* Such a line is read as it was written.
LEMMA LineReads ==
    ASSUME NEW kind \in Kinds, NEW prev \in Digests, NEW event \in AllEvents, ~Spelling(event), NEW line, line = LineOf(kind, event, prev)
    PROVE  /\ HasMeta(line) /\ Prev(line) = prev /\ Hash(line) = ChainHash(kind, prev, Payload(event))
           /\ EventRead(line) = event /\ Text(line, "outcome") \in Outcomes
  <1>0. Laid(line, kind, event, prev)
    BY LineHas
  <1>2. /\ Len(line) = 9 /\ DOMAIN line = 1..9
        /\ \A i \in 1..9 : line[i].key = Columns[i] /\ line[i].torn = FALSE
        /\ \A i \in 1..7 : line[i].value = event[EventKeys[i]]
        /\ line[8].value = prev /\ line[9].value = ChainHash(kind, prev, Payload(event))
    BY <1>0 DEF Laid
  <1>3. ASSUME NEW i \in 1..9
        PROVE  First(line, Columns[i]) = i /\ SpelledAt(line, i, Columns[i]) /\ Readable(line, Columns[i])
    <2>1. SpelledAt(line, i, Columns[i])
      BY <1>2 DEF SpelledAt
    <2>2. ASSUME NEW j \in 1..(i - 1) PROVE ~SpelledAt(line, j, Columns[i])
      <3>1. j \in 1..9 /\ j < i /\ line[j].key = Columns[j] /\ Columns[j] # Columns[i]
        BY <1>2, ColumnsAre
      <3>2. CASE j \in 1..7
        <4>1. ~Misleads(event[EventKeys[j]], j)
          BY <3>2, ColumnsAre DEF Spelling
        <4>2. event[EventKeys[j]] # Columns[i]
          BY <3>1, <4>1, ColumnsAre DEF Misleads
        <4> QED
          BY <1>2, <3>1, <3>2, <4>2 DEF SpelledAt
      <3>3. CASE j \notin 1..7
        <4>1. j = 8 \/ j = 9
          BY <3>1, <3>3
        <4>2. Columns[j] \notin ToSet(EventKeys)
          BY <4>1, ColumnsAre
        <4> QED
          BY <3>1, <4>2 DEF SpelledAt
      <3> QED
        BY <3>2, <3>3
    <2>3. First(line, Columns[i]) = i
      BY <1>2, <2>1, <2>2, FirstIs
    <2>4. Readable(line, Columns[i])
      BY <1>2, <2>1, <2>3 DEF Readable
    <2> QED
      BY <2>1, <2>3, <2>4
  <1>4. ASSUME NEW key \in ToSet(EventKeys) PROVE Readable(line, key) /\ Text(line, key) = event[key]
    <2>1. PICK i \in 1..7 : key = EventKeys[i]
      BY ColumnsAre
    <2>2. i \in 1..9 /\ key = Columns[i]
      BY <2>1, ColumnsAre
    <2>3. Readable(line, key) /\ First(line, key) = i
      BY <1>3, <2>2
    <2> QED
      BY <1>2, <2>1, <2>3 DEF Text
  <1>5. Readable(line, "prev") /\ First(line, "prev") = 8
    BY <1>3, ColumnsAre
  <1>6. Readable(line, "hash") /\ First(line, "hash") = 9
    BY <1>3, ColumnsAre
  <1>7. HasMeta(line)
    BY <1>4, <1>5, <1>6 DEF HasMeta, HasEvent
  <1>8. Prev(line) = prev /\ Hash(line) = ChainHash(kind, prev, Payload(event))
    BY <1>2, <1>5, <1>6 DEF Prev, Hash
  <1>9. event = [key \in ToSet(EventKeys) |-> event[key]] /\ event["outcome"] \in Outcomes
    BY AuditAssumption
  <1>10. EventRead(line) = event
    BY <1>4, <1>9 DEF EventRead
  <1>11. "outcome" \in ToSet(EventKeys)
    <2>1. 6 \in 1..7 /\ EventKeys[6] = "outcome"
      BY ColumnsAre
    <2> QED
      BY <2>1, ColumnsAre
  <1>12. Text(line, "outcome") \in Outcomes
    BY <1>4, <1>9, <1>11
  <1> QED
    BY <1>7, <1>8, <1>10, <1>12

\* Events with the same payload are the same.
LEMMA PayloadTells ==
    ASSUME NEW event \in AllEvents, NEW read, read = [key \in ToSet(EventKeys) |-> read[key]], Payload(event) = Payload(read)
    PROVE  read = event
  <1>1. event = [key \in ToSet(EventKeys) |-> event[key]]
    BY AuditAssumption
  <1>2. \A i \in 1..7 : event[EventKeys[i]] = read[EventKeys[i]]
    <2>1. \A i \in 1..7 : Payload(event)[i] = event[EventKeys[i]] /\ Payload(read)[i] = read[EventKeys[i]]
      BY ColumnsAre DEF Payload
    <2> QED
      BY <2>1
  <1>3. \A key \in ToSet(EventKeys) : event[key] = read[key]
    BY <1>2, ColumnsAre
  <1> QED
    BY <1>1, <1>3

\* A line that verifies is read as the event whose hash it holds.
LEMMA VerifiedRead ==
    ASSUME NEW lines, NEW n, Verified(lines, n), NEW kind \in Kinds, NEW prev \in Digests, NEW event \in AllEvents,
           lines[n] \in Seq(Fields), Hash(lines[n]) = ChainHash(kind, prev, Payload(event))
    PROVE  EventRead(lines[n]) = event /\ HasEvent(lines[n]) /\ Text(lines[n], "outcome") \in Outcomes
  <1>1. PICK line : line = lines[n]
    OBVIOUS
  <1>2. HasMeta(line) /\ \E other : Hash(line) = ChainHash(other, Prev(line), Payload(EventRead(line)))
    BY <1>1 DEF Verified
  <1>3. HasEvent(line)
    BY <1>2 DEF HasMeta
  <1>4. Prev(line) \in Digests
    BY <1>1, <1>2, MetaFound
  <1>5. PICK other : Hash(line) = ChainHash(other, Prev(line), Payload(EventRead(line)))
    BY <1>2
  <1>6. Payload(event) = Payload(EventRead(line))
    <2>1. PICK p, x : p = Prev(line) /\ x = Payload(EventRead(line))
      OBVIOUS
    <2>2. ChainHash(kind, prev, Payload(event)) = ChainHash(other, p, x) /\ p \in Digests
      BY <1>1, <1>4, <1>5, <2>1
    <2>3. Payload(event) = x
      BY <2>2, HashTold
    <2> QED
      BY <2>1, <2>3
  <1>7. PICK read : read = EventRead(line)
    OBVIOUS
  <1>8. read = [key \in ToSet(EventKeys) |-> read[key]]
    BY <1>7 DEF EventRead
  <1>9. read = event
    BY <1>6, <1>7, <1>8, PayloadTells
  <1>10. "outcome" \in ToSet(EventKeys)
    <2>1. 6 \in 1..7 /\ EventKeys[6] = "outcome"
      BY ColumnsAre
    <2> QED
      BY <2>1, ColumnsAre
  <1>11. Text(line, "outcome") = event["outcome"]
    BY <1>7, <1>9, <1>10 DEF EventRead
  <1> QED
    BY <1>1, <1>3, <1>7, <1>9, <1>11, AuditAssumption

\* An intact beginning of the file verifies.
LEMMA IntactVerified ==
    ASSUME AuditInv, NEW n \in DOMAIN file, IntactTo(n)
    PROVE  Verified(file, n)
  <1>1. n \in Nat /\ n >= 1 /\ ~Damaged(file[n])
    <2>1. n \in 1..Len(file) /\ Len(file) \in Nat
      BY DEF AuditInv, AuditTypes
    <2> QED
      BY <2>1 DEF IntactTo
  <1>2. Whole(file[n]) /\ Prev(file[n]) = Tip(n - 1)
    BY <1>1 DEF AuditInv, LinesShaped, Chained
  <1>3. PICK kind \in Kinds, prev \in Digests, event \in AllEvents : file[n] = LineOf(kind, event, prev)
    BY <1>2 DEF Whole, LineFor
  <1>4. ~Spelling(event)
    BY <1>1, <1>3, LineDamage
  <1>5. HasMeta(file[n]) /\ Prev(file[n]) = prev /\ Hash(file[n]) = ChainHash(kind, prev, Payload(event)) /\ EventRead(file[n]) = event
    BY <1>3, <1>4, LineReads
  <1>6. Last(Hash(file[n]))[1] = kind
    BY <1>5, HashShape
  <1>7. Prev(file[n]) = IF n = 1 THEN Genesis ELSE Hash(file[n - 1])
    BY <1>1, <1>2 DEF Tip
  <1> QED
    BY <1>5, <1>6, <1>7 DEF Verified

\* The k-th number of an interval from one is k.
LEMMA NthIs ==
    ASSUME NEW n \in Nat
    PROVE  Cardinality(1..n) = n /\ \A k \in 1..n : Nth(1..n, k) = k
  <1>1. \A k \in 0..n : Cardinality(1..k) = k
    <2>1. SUFFICES ASSUME NEW k \in 0..n PROVE Cardinality(1..k) = k
      OBVIOUS
    <2>2. 1 \in Int /\ k \in Int /\ (1 > k => k = 0) /\ k - 1 + 1 = k
      OBVIOUS
    <2>3. Cardinality(1..k) = IF 1 > k THEN 0 ELSE k - 1 + 1
      BY <2>2, FS_Interval, Zenon
    <2> QED
      BY <2>2, <2>3
  <1>2. ASSUME NEW k \in 1..n PROVE Nth(1..n, k) = k
    <2>1. \A j \in 1..n : {m \in 1..n : m <= j} = 1..j /\ j \in 0..n
      OBVIOUS
    <2>2. \A j \in 1..n : Cardinality({m \in 1..n : m <= j}) = j
      BY <1>1, <2>1
    <2> QED
      BY <2>2 DEF Nth
  <1>3. n \in 0..n
    OBVIOUS
  <1> QED
    BY <1>1, <1>2, <1>3

\* When every line can be read, all are.
LEMMA TailRead ==
    ASSUME Len(file) \in Nat, DOMAIN file = 1..Len(file), \A n \in DOMAIN file : HasEvent(file[n]) /\ Text(file[n], "outcome") \in Outcomes
    PROVE  LoadTail(file) = [n \in 1..Len(file) |-> EventRead(file[n])]
  <1>1. {n \in DOMAIN file : HasEvent(file[n]) /\ Text(file[n], "outcome") \in Outcomes} = 1..Len(file)
    OBVIOUS
  <1>2. Cardinality(1..Len(file)) = Len(file) /\ \A k \in 1..Len(file) : Nth(1..Len(file), k) = k
    BY NthIs
  <1> QED
    BY <1>1, <1>2 DEF LoadTail

\* The invariant says that a clean log is complete and that no intact line is blamed.
LEMMA InvClean ==
    ASSUME AuditInv
    PROVE  CleanLogComplete /\ NoFalseAlarm
  <1>1. /\ Len(file) \in Nat /\ DOMAIN file = 1..Len(file) /\ tried \in Seq(Attempts)
        /\ \A n \in DOMAIN file : file[n] \in Seq(Fields)
    BY DEF AuditInv, AuditTypes
  <1>2. NoFalseAlarm
    <2>1. SUFFICES ASSUME NEW n \in BrokenAt(file), IntactTo(n) PROVE FALSE
      BY DEF NoFalseAlarm, IntactTo
    <2>2. n \in DOMAIN file /\ ~Verified(file, n)
      BY DEF BrokenAt
    <2> QED
      BY <2>1, <2>2, IntactVerified
  <1>3. ASSUME EachKept PROVE VerifyOk(file) /\ LoadTail(file) = EventsOf(DOMAIN tried)
    <2>1. Len(file) = Len(tried) /\ \A n \in DOMAIN file : LineFor(file[n], tried[n].event)
      BY <1>3 DEF AuditInv, LineEach
    <2>2. \A n \in DOMAIN file : tried[n].event \in AllEvents /\ ~Spelling(tried[n].event)
      <3>1. SUFFICES ASSUME NEW n \in DOMAIN file PROVE tried[n].event \in AllEvents /\ ~Spelling(tried[n].event)
        OBVIOUS
      <3>2. n \in DOMAIN tried /\ tried[n] \in Attempts
        BY <1>1, <2>1
      <3> QED
        BY <1>3, <3>2 DEF EachKept, Attempts
    <2>3. ASSUME NEW n \in DOMAIN file
          PROVE  ~Damaged(file[n]) /\ HasMeta(file[n]) /\ EventRead(file[n]) = tried[n].event /\ Text(file[n], "outcome") \in Outcomes
      <3>1. PICK kind \in Kinds, prev \in Digests : file[n] = LineOf(kind, tried[n].event, prev)
        BY <2>1 DEF LineFor
      <3>2. PICK event \in AllEvents : event = tried[n].event
        BY <2>2
      <3>3. ~Spelling(event) /\ file[n] = LineOf(kind, event, prev)
        BY <2>2, <3>1, <3>2
      <3>4. ~Damaged(file[n])
        BY <3>3, LineDamage
      <3>5. HasMeta(file[n]) /\ EventRead(file[n]) = event /\ Text(file[n], "outcome") \in Outcomes
        BY <3>3, LineReads
      <3> QED
        BY <3>2, <3>4, <3>5
    <2>4. \A n \in DOMAIN file : IntactTo(n)
      BY <1>1, <2>3 DEF IntactTo
    <2>5. VerifyOk(file)
      BY <2>4, IntactVerified DEF VerifyOk, BrokenAt
    <2>6. LoadTail(file) = [n \in 1..Len(file) |-> EventRead(file[n])]
      BY <1>1, <2>3, TailRead DEF HasMeta
    <2>7. DOMAIN tried = 1..Len(file)
      BY <1>1, <2>1
    <2>8. LoadTail(file) = EventsOf(DOMAIN tried)
      BY <1>1, <2>3, <2>6, <2>7 DEF EventsOf
    <2> QED
      BY <2>5, <2>8
  <1> QED
    BY <1>2, <1>3 DEF CleanLogComplete

\* The ends of the lines grow.
LEMMA EndsGrow ==
    ASSUME NEW n \in Nat, NEW end \in [0..n -> Nat], \A k \in 1..n : end[k - 1] < end[k]
    PROVE  \A j \in 0..n : \A i \in 0..(j - 1) : end[i] < end[j]
  <1> DEFINE S == {j \in 0..n : \A i \in 0..(j - 1) : end[i] < end[j]}
  <1>1. 0 \in S
    OBVIOUS
  <1>2. \A j \in 0..(n - 1) : j \in S => j + 1 \in S
    <2>1. SUFFICES ASSUME NEW j \in 0..(n - 1), j \in S PROVE j + 1 \in S
      OBVIOUS
    <2>2. end[j] < end[j + 1] /\ j + 1 \in 0..n
      <3>1. j + 1 \in 1..n /\ (j + 1) - 1 = j
        OBVIOUS
      <3> QED
        BY <3>1
    <2>3. ASSUME NEW i \in 0..j PROVE end[i] < end[j + 1]
      <3>1. CASE i = j
        BY <2>2, <3>1
      <3>2. CASE i # j
        <4>1. i \in 0..(j - 1) /\ end[i] \in Nat /\ end[j] \in Nat /\ end[j + 1] \in Nat
          BY <2>2, <3>2
        <4>2. end[i] < end[j]
          BY <2>1, <4>1
        <4> QED
          BY <2>2, <4>1, <4>2
      <3> QED
        BY <3>1, <3>2
    <2> QED
      BY <2>2, <2>3
  <1> HIDE DEF S
  <1>3. \A j \in 0..n : j \in S
    BY <1>1, <1>2, IntervalInduction
  <1> QED
    BY <1>3 DEF S

\* When no line is the first that does not verify, all verify.
LEMMA AllVerified ==
    ASSUME Len(file) \in Nat, DOMAIN file = 1..Len(file), VerifyOk(file)
    PROVE  \A n \in DOMAIN file : Verified(file, n)
  <1> DEFINE bad == {n \in 1..Len(file) : ~Verified(file, n)}
  <1>1. SUFFICES ASSUME bad # {} PROVE FALSE
    OBVIOUS
  <1>2. bad \in SUBSET Nat
    OBVIOUS
  <1>3. PICK n \in bad : \A m \in bad : n <= m
    BY <1>1, <1>2, LeastElement
  <1>4. n \in DOMAIN file /\ ~Verified(file, n) /\ \A m \in 1..(n - 1) : Verified(file, m)
    BY <1>3
  <1> QED
    BY <1>4 DEF VerifyOk, BrokenAt

\* The invariant says that what verifies is genuine: every line that verifies has an append of its own.
LEMMA InvGenuine ==
    ASSUME AuditInv
    PROVE  VerifiedIsGenuine
  <1>1. /\ Len(file) \in Nat /\ DOMAIN file = 1..Len(file) /\ Len(tried) \in Nat /\ DOMAIN tried = 1..Len(tried)
        /\ \A n \in DOMAIN file : file[n] \in Seq(Fields)
        /\ \A a \in DOMAIN tried : tried[a].event \in AllEvents
    <2>1. file \in Seq(Seq(Fields)) /\ tried \in Seq(Attempts)
      BY DEF AuditInv, AuditTypes
    <2>2. \A a \in DOMAIN tried : tried[a] \in Attempts
      BY <2>1
    <2> QED
      BY <2>1, <2>2 DEF Attempts
  <1>2. PICK end \in [0..Len(file) -> 0..Len(tried)] : Chronicle(end)
    BY DEF AuditInv, Chronicled
  <1>3. SUFFICES ASSUME VerifyOk(file)
                 PROVE  Within(LoadTail(file), EventsOf(DOMAIN tried)) /\ Within(EventsOf(KeptFresh), LoadTail(file))
    BY DEF VerifiedIsGenuine
  <1>4. \A j \in 0..Len(file) : \A i \in 0..(j - 1) : end[i] < end[j]
    <2>1. end \in [0..Len(file) -> Nat]
      BY <1>1
    <2>2. \A k \in 1..Len(file) : end[k - 1] < end[k]
      BY <1>1, <1>2 DEF Chronicle
    <2> QED
      BY <1>1, <2>1, <2>2, EndsGrow
  <1>5. \A n \in DOMAIN file : Verified(file, n)
    BY <1>1, <1>3, AllVerified
  <1>6. ASSUME NEW n \in DOMAIN file
        PROVE  /\ HasEvent(file[n]) /\ Text(file[n], "outcome") \in Outcomes
               /\ \E a \in DOMAIN tried : end[n - 1] < a /\ a <= end[n] /\ tried[a].event = EventRead(file[n])
    <2>1. Verified(file, n) /\ HasMeta(file[n]) /\ file[n] \in Seq(Fields)
      BY <1>1, <1>5 DEF Verified
    <2>2. PICK i \in DOMAIN file[n] : file[n][i].key = "hash" /\ Hash(file[n]) = file[n][i].value
      BY <2>1, MetaFound
    <2>3. PICK a \in (end[n - 1] + 1)..end[n] : HashedBy(file[n][i].value, tried[a].event)
      BY <1>2, <2>2 DEF Chronicle
    <2>4. n - 1 \in 0..Len(file) /\ n \in 0..Len(file) /\ end[n - 1] \in 0..Len(tried) /\ end[n] \in 0..Len(tried)
      BY <1>1, <1>2
    <2>5. a \in DOMAIN tried /\ end[n - 1] < a /\ a <= end[n]
      BY <1>1, <2>3, <2>4
    <2>6. PICK kind \in Kinds, prev \in Digests : Hash(file[n]) = ChainHash(kind, prev, Payload(tried[a].event))
      BY <2>2, <2>3 DEF HashedBy
    <2>7. PICK event \in AllEvents : event = tried[a].event
      BY <1>1, <2>5
    <2>8. EventRead(file[n]) = event /\ HasEvent(file[n]) /\ Text(file[n], "outcome") \in Outcomes
      BY <2>1, <2>6, <2>7, VerifiedRead
    <2> QED
      BY <2>5, <2>7, <2>8
  <1>7. LoadTail(file) = [n \in 1..Len(file) |-> EventRead(file[n])]
    BY <1>1, <1>6, TailRead
  <1>8. Within(LoadTail(file), EventsOf(DOMAIN tried))
    <2> DEFINE whose(n, a) == end[n - 1] < a /\ a <= end[n] /\ tried[a].event = EventRead(file[n])
               at == [n \in 1..Len(file) |-> CHOOSE a \in DOMAIN tried : whose(n, a)]
    <2>1. \A n \in 1..Len(file) : at[n] \in DOMAIN tried /\ whose(n, at[n])
      BY <1>1, <1>6
    <2> HIDE DEF at
    <2>2. at \in [1..Len(file) -> DOMAIN tried]
      BY <2>1 DEF at
    <2>3. \A m, n \in 1..Len(file) : m < n => at[m] < at[n]
      <3>1. SUFFICES ASSUME NEW m \in 1..Len(file), NEW n \in 1..Len(file), m < n PROVE at[m] < at[n]
        OBVIOUS
      <3>2. at[m] <= end[m] /\ end[n - 1] < at[n] /\ at[m] \in Nat /\ at[n] \in Nat
        BY <1>1, <2>1
      <3>3. m \in 0..Len(file) /\ n - 1 \in 0..Len(file) /\ end[m] \in Nat /\ end[n - 1] \in Nat
        <4>1. m \in 0..Len(file) /\ n - 1 \in 0..Len(file)
          BY <1>1, <3>1
        <4>2. end[m] \in 0..Len(tried) /\ end[n - 1] \in 0..Len(tried)
          BY <1>2, <4>1
        <4> QED
          BY <1>1, <4>1, <4>2
      <3>4. m = n - 1 \/ m \in 0..((n - 1) - 1)
        BY <1>1, <3>1
      <3>5. end[m] <= end[n - 1]
        BY <1>4, <3>3, <3>4
      <3> QED
        BY <3>2, <3>3, <3>5
    <2>4. \A n \in 1..Len(file) : tried[at[n]].event = EventRead(file[n])
      BY <2>1
    <2>5. \E f \in [DOMAIN LoadTail(file) -> DOMAIN EventsOf(DOMAIN tried)] :
             \A m, n \in DOMAIN LoadTail(file) : EventsOf(DOMAIN tried)[f[n]] = LoadTail(file)[n] /\ (m < n => f[m] < f[n])
      <3>1. DOMAIN LoadTail(file) = 1..Len(file) /\ DOMAIN EventsOf(DOMAIN tried) = DOMAIN tried
        BY <1>7 DEF EventsOf
      <3>2. \A n \in 1..Len(file) : EventsOf(DOMAIN tried)[at[n]] = LoadTail(file)[n]
        BY <1>7, <2>2, <2>4 DEF EventsOf
      <3> QED
        BY <2>2, <2>3, <3>1, <3>2
    <2> QED
      BY <2>5 DEF Within
  <1>9. Within(EventsOf(KeptFresh), LoadTail(file))
    <2> DEFINE line(a, n) == end[n] = a /\ LineFor(file[n], tried[a].event)
               at == [a \in KeptFresh |-> CHOOSE n \in DOMAIN file : line(a, n)]
    <2>1. \A a \in KeptFresh : at[a] \in DOMAIN file /\ line(a, at[a])
      BY <1>2 DEF Chronicle
    <2> HIDE DEF at
    <2>2. at \in [KeptFresh -> 1..Len(file)]
      BY <1>1, <2>1 DEF at
    <2>3. \A a, b \in KeptFresh : a < b => at[a] < at[b]
      <3>1. SUFFICES ASSUME NEW a \in KeptFresh, NEW b \in KeptFresh, a < b, ~(at[a] < at[b]) PROVE FALSE
        OBVIOUS
      <3>2. a \in Nat /\ b \in Nat /\ at[a] \in 1..Len(file) /\ at[b] \in 1..Len(file) /\ end[at[a]] = a /\ end[at[b]] = b
        BY <1>1, <2>1, <2>2 DEF KeptFresh
      <3>3. at[a] = at[b] \/ at[b] \in 0..(at[a] - 1)
        BY <1>1, <3>1, <3>2
      <3>4. at[a] \in 0..Len(file)
        BY <1>1, <3>2
      <3>5. ~(at[b] \in 0..(at[a] - 1))
        BY <1>4, <3>1, <3>2, <3>4
      <3> QED
        BY <3>1, <3>2, <3>3, <3>5
    <2>4. ASSUME NEW a \in KeptFresh PROVE EventRead(file[at[a]]) = tried[a].event
      <3>1. PICK n \in DOMAIN file : n = at[a]
        BY <2>1
      <3>2. a \in DOMAIN tried
        BY DEF KeptFresh
      <3>3. PICK event \in AllEvents : event = tried[a].event
        BY <1>1, <3>2
      <3>4. PICK kind \in Kinds, prev \in Digests : file[n] = LineOf(kind, event, prev)
        BY <2>1, <3>1, <3>3 DEF LineFor
      <3>5. Laid(file[n], kind, event, prev)
        BY <3>4, LineHas
      <3>6. Verified(file, n) /\ HasMeta(file[n]) /\ file[n] \in Seq(Fields)
        BY <1>1, <1>5 DEF Verified
      <3>7. PICK i \in DOMAIN file[n] : file[n][i].key = "hash" /\ Hash(file[n]) = file[n][i].value
        BY <3>6, MetaFound
      <3>8. i \in 1..9 /\ Columns[i] = Columns[9]
        BY <3>5, <3>7, ColumnsAre DEF Laid
      <3>9. i = 9
        BY <3>8, ColumnsAre
      <3>10. Hash(file[n]) = ChainHash(kind, prev, Payload(event))
        BY <3>5, <3>7, <3>9 DEF Laid
      <3>11. EventRead(file[n]) = event
        BY <3>6, <3>10, VerifiedRead
      <3> QED
        BY <3>1, <3>3, <3>11
    <2>5. \E f \in [DOMAIN EventsOf(KeptFresh) -> DOMAIN LoadTail(file)] :
             \A m, n \in DOMAIN EventsOf(KeptFresh) : LoadTail(file)[f[n]] = EventsOf(KeptFresh)[n] /\ (m < n => f[m] < f[n])
      <3>1. DOMAIN LoadTail(file) = 1..Len(file) /\ DOMAIN EventsOf(KeptFresh) = KeptFresh
        BY <1>7 DEF EventsOf
      <3>2. \A a \in KeptFresh : LoadTail(file)[at[a]] = EventsOf(KeptFresh)[a]
        BY <1>7, <2>2, <2>4 DEF EventsOf
      <3> QED
        BY <2>2, <2>3, <3>1, <3>2
    <2> QED
      BY <2>5 DEF Within
  <1> QED
    BY <1>8, <1>9

\* What an append puts into the file: the line of its event or a beginning of it.
IsPiece(text, event, prev) ==
    /\ text \in Seq(Fields) /\ text # <<>> /\ text[1].key = "ts"
    /\ \A i \in DOMAIN text : text[i].key = "hash" => text[i].value = ChainHash("sha", prev, Payload(event))
    /\ text = LineOf("sha", event, prev) \/ Damaged(text)

\* The whole line is one.
LEMMA WholePiece ==
    ASSUME NEW event \in AllEvents, NEW prev \in Digests
    PROVE  IsPiece(LineOf("sha", event, prev), event, prev)
  <1>1. PICK line : line = LineOf("sha", event, prev)
    OBVIOUS
  <1>2. "sha" \in Kinds
    BY DEF Kinds
  <1>3. Laid(line, "sha", event, prev)
    BY <1>1, <1>2, LineHas
  <1>4. line \in Seq(Fields) /\ Len(line) = 9 /\ DOMAIN line = 1..9 /\ line[9].value = ChainHash("sha", prev, Payload(event))
        /\ \A i \in 1..9 : line[i].key = Columns[i]
    BY <1>3 DEF Laid
  <1>5. line # <<>>
    <2>1. Len(line) # Len(<<>>)
      BY <1>4
    <2> QED
      BY <2>1
  <1>6. Columns[1] = "ts" /\ \A i \in 1..9 : Columns[i] = "hash" => i = 9
    BY ColumnsAre
  <1>7. line[1].key = "ts"
    BY <1>4, <1>6
  <1>8. \A i \in DOMAIN line : line[i].key = "hash" => line[i].value = ChainHash("sha", prev, Payload(event))
    BY <1>4, <1>6
  <1> QED
    BY <1>1, <1>4, <1>5, <1>7, <1>8 DEF IsPiece

\* So is every beginning a failing write leaves.
LEMMA Beginning ==
    ASSUME NEW event \in AllEvents, NEW prev \in Digests, NEW text \in Beginnings(LineOf("sha", event, prev))
    PROVE  IsPiece(text, event, prev)
  <1>1. PICK line : line = LineOf("sha", event, prev)
    OBVIOUS
  <1>2. "sha" \in Kinds
    BY DEF Kinds
  <1>3. Laid(line, "sha", event, prev)
    BY <1>1, <1>2, LineHas
  <1>4. /\ line \in Seq(Fields) /\ Len(line) = 9 /\ DOMAIN line = 1..9
        /\ \A i \in 1..9 : line[i].key = Columns[i] /\ line[i] \in Fields
        /\ line[8].value = prev /\ line[9].value = ChainHash("sha", prev, Payload(event))
    <2>1. /\ line \in Seq(Fields) /\ Len(line) = 9 /\ DOMAIN line = 1..9 /\ \A i \in 1..9 : line[i].key = Columns[i]
      BY <1>3 DEF Laid
    <2>2. line[8].value = prev /\ line[9].value = ChainHash("sha", prev, Payload(event))
      BY <1>3 DEF Laid
    <2>3. \A i \in 1..9 : line[i] \in Fields
      <3>1. line \in Seq(Fields) /\ Len(line) = 9
        BY <2>1
      <3> QED
        BY <3>1, ElementOfSeq
    <2> QED
      BY <2>1, <2>2, <2>3
  <1>5. \A i \in 1..9 : Columns[i] = "hash" => i = 9
    BY ColumnsAre
  <1>6. Cuts \subseteq 1..9 /\ Len(EventKeys) = 7 /\ DOMAIN Columns = 1..9
    <2>1. EventKeys = [i \in 1..7 |-> Columns[i]]
      BY DEF EventKeys
    <2> QED
      BY <2>1, AuditAssumption, ColumnsAre
  <1>7. CASE \E n \in Cuts : text = SubSeq(line, 1, n)
    <2>1. PICK n \in Cuts : text = SubSeq(line, 1, n)
      BY <1>7
    <2>2. n \in 1..9
      BY <1>6
    <2>3. text \in Seq(Fields) /\ Len(text) = n /\ DOMAIN text = 1..n /\ \A i \in 1..n : text[i] = line[i]
      BY <1>4, <2>1, <2>2
    <2>4. text # <<>> /\ text[1].key = "ts"
      <3>1. 1 \in 1..n /\ 1 \in 1..9
        BY <2>2
      <3> QED
        BY <1>4, <2>3, <3>1, ColumnsAre
    <2>5. \A i \in DOMAIN text : text[i].key = "hash" => text[i].value = ChainHash("sha", prev, Payload(event))
      <3>1. \A i \in 1..n : i \in 1..9 /\ text[i] = line[i] /\ line[i].key = Columns[i]
        BY <1>4, <2>2, <2>3
      <3> QED
        BY <1>4, <1>5, <2>3, <3>1
    <2>6. CASE n = 9
      <3>1. text = line
        BY <1>4, <2>3, <2>6, SeqEqual
      <3> QED
        BY <1>1, <2>3, <2>4, <2>5, <3>1 DEF IsPiece
    <2>7. CASE n # 9
      <3>1. n \in DOMAIN text /\ n + 1 \notin DOMAIN text /\ n + 1 \in 1..9
        BY <2>2, <2>3, <2>7
      <3>2. [i \in DOMAIN text |-> text[i].key] # Columns
        BY <1>6, <3>1
      <3> QED
        BY <2>3, <2>4, <2>5, <3>2 DEF IsPiece, Damaged
    <2> QED
      BY <2>6, <2>7
  <1>8. CASE \E n \in Cuts : text = Append(SubSeq(line, 1, n - 1), [line[n] EXCEPT !.torn = TRUE, !.value = IF n <= Len(EventKeys) THEN Torn ELSE @])
    <2>1. PICK n \in Cuts : text = Append(SubSeq(line, 1, n - 1), [line[n] EXCEPT !.torn = TRUE, !.value = IF n <= Len(EventKeys) THEN Torn ELSE @])
      BY <1>8
    <2>2. n \in 1..9
      BY <1>6
    <2>3. PICK cut : cut = [line[n] EXCEPT !.torn = TRUE, !.value = IF n <= 7 THEN Torn ELSE @]
      OBVIOUS
    <2>4. PICK start : start = SubSeq(line, 1, n - 1)
      OBVIOUS
    <2>5. start \in Seq(Fields) /\ Len(start) = n - 1 /\ \A i \in 1..(n - 1) : start[i] = line[i]
      BY <1>4, <2>2, <2>4
    <2>6. cut.key = line[n].key /\ cut.torn = TRUE /\ cut.value = (IF n <= 7 THEN Torn ELSE line[n].value) /\ cut \in Fields
      <3>1. line[n] \in [key : ToSet(Columns), value : Values, torn : BOOLEAN] /\ line[n].key = Columns[n]
            /\ (line[n].key \in {"prev", "hash"} => line[n].value \in Digests)
        BY <1>4, <2>2 DEF Fields
      <3>2. Torn \in Values
        BY DEF Values
      <3>3. cut.key = line[n].key /\ cut.torn = TRUE /\ cut.value = (IF n <= 7 THEN Torn ELSE line[n].value)
            /\ cut \in [key : ToSet(Columns), value : Values, torn : BOOLEAN]
        BY <2>3, <3>1, <3>2
      <3>4. n <= 7 => Columns[n] \notin {"prev", "hash"}
        BY <2>2, ColumnsAre
      <3> QED
        BY <3>1, <3>3, <3>4 DEF Fields
    <2>7. text = Append(start, cut)
      BY <1>6, <2>1, <2>3, <2>4
    <2>8. text \in Seq(Fields) /\ Len(text) = n /\ DOMAIN text = 1..n /\ text[n] = cut /\ \A i \in 1..(n - 1) : text[i] = line[i]
      BY <2>2, <2>5, <2>6, <2>7
    <2>9. \A i \in 1..n : text[i].key = Columns[i] /\ (i = 9 => text[i].value = line[i].value)
      <3>1. SUFFICES ASSUME NEW i \in 1..n PROVE text[i].key = Columns[i] /\ (i = 9 => text[i].value = line[i].value)
        OBVIOUS
      <3>2. i \in 1..9 /\ line[i].key = Columns[i] /\ (i = n \/ i \in 1..(n - 1))
        BY <1>4, <2>2
      <3> QED
        BY <2>6, <2>8, <3>2
    <2>10. text # <<>> /\ text[1].key = "ts"
      <3>1. 1 \in 1..n
        BY <2>2
      <3> QED
        BY <2>8, <2>9, <3>1, ColumnsAre
    <2>11. \A i \in DOMAIN text : text[i].key = "hash" => text[i].value = ChainHash("sha", prev, Payload(event))
      <3>1. \A i \in 1..n : i \in 1..9
        BY <2>2
      <3> QED
        BY <1>4, <1>5, <2>8, <2>9, <3>1
    <2>12. Damaged(text)
      <3>1. n \in DOMAIN text /\ text[n].torn
        BY <2>2, <2>6, <2>8
      <3> QED
        BY <3>1 DEF Damaged
    <2> QED
      BY <2>8, <2>10, <2>11, <2>12 DEF IsPiece
  <1> QED
    BY <1>1, <1>7, <1>8 DEF Beginnings

\* What is written behind an unfinished line damages it.
LEMMA RunTogether ==
    ASSUME NEW line \in Seq(Fields), line # <<>>, NEW text \in Seq(Fields), text # <<>>, text[1].key = "ts"
    PROVE  /\ line \o text \in Seq(Fields) /\ line \o text # <<>> /\ Damaged(line \o text)
           /\ DOMAIN (line \o text) = 1..(Len(line) + Len(text)) /\ Len(line) \in Nat /\ Len(text) \in Nat
           /\ \A i \in 1..Len(line) : (line \o text)[i] = line[i]
           /\ \A i \in (Len(line) + 1)..(Len(line) + Len(text)) : i - Len(line) \in DOMAIN text /\ (line \o text)[i] = text[i - Len(line)]
  <1>1. PICK both : both = line \o text
    OBVIOUS
  <1>2. Len(line) \in Nat \ {0} /\ Len(text) \in Nat \ {0} /\ DOMAIN text = 1..Len(text)
    BY EmptySeq
  <1>3. both \in Seq(Fields) /\ Len(both) = Len(line) + Len(text) /\ DOMAIN both = 1..(Len(line) + Len(text))
    BY <1>1, <1>2
  <1>4. \A i \in 1..Len(line) : both[i] = line[i]
    BY <1>1, <1>2
  <1>5. \A i \in (Len(line) + 1)..(Len(line) + Len(text)) : i - Len(line) \in DOMAIN text /\ both[i] = text[i - Len(line)]
    BY <1>1, <1>2
  <1>6. Damaged(both)
    <2>1. SUFFICES ASSUME [i \in DOMAIN both |-> both[i].key] = Columns PROVE FALSE
      BY DEF Damaged
    <2>2. PICK k : k = Len(line) + 1
      OBVIOUS
    <2>3. k \in DOMAIN both /\ k # 1 /\ both[k].key = "ts"
      BY <1>2, <1>3, <1>5, <2>2
    <2>4. k \in 1..9 /\ Columns[k] = "ts"
      BY <2>1, <2>3, ColumnsAre
    <2> QED
      BY <2>3, <2>4, ColumnsAre
  <1> QED
    BY <1>1, <1>2, <1>3, <1>4, <1>5, <1>6

\* A piece is written, on a line of its own or behind an unfinished one.
LEMMA PieceKeepsInv ==
    ASSUME AuditInv, NEW event \in AllEvents, NEW text, IsPiece(text, event, last_hash), NEW kept \in BOOLEAN,
           Writing(text), Tried(event, kept), open_line' = ~kept,
           kept => text = LineOf("sha", event, last_hash) /\ last_hash' = ChainHash("sha", last_hash, Payload(event)),
           ~kept => last_hash' = last_hash
    PROVE  AuditInv'
  <1> DEFINE attempt == [event |-> event, kept |-> kept, fresh |-> ~open_line]
  <1>0. PICK N, T, M : N = Len(file) /\ T = Len(tried) /\ M = (IF open_line THEN N ELSE N + 1)
    OBVIOUS
  <1>1. /\ file \in Seq(Seq(Fields)) /\ tried \in Seq(Attempts) /\ last_hash \in Digests /\ open_line \in BOOLEAN
        /\ N \in Nat /\ DOMAIN file = 1..N /\ T \in Nat /\ DOMAIN tried = 1..T
        /\ \A n \in 1..N : file[n] \in Seq(Fields) /\ file[n] # <<>>
        /\ open_line => N >= 1
    <2>1. file \in Seq(Seq(Fields)) /\ tried \in Seq(Attempts) /\ last_hash \in Digests /\ open_line \in BOOLEAN
          /\ (\A n \in DOMAIN file : file[n] # <<>>) /\ (open_line => file # <<>>)
      BY DEF AuditInv, AuditTypes
    <2>2. N \in Nat /\ DOMAIN file = 1..N /\ T \in Nat /\ DOMAIN tried = 1..T
      BY <1>0, <2>1
    <2>3. \A n \in 1..N : file[n] \in Seq(Fields) /\ file[n] # <<>>
      BY <1>0, <2>1, <2>2, ElementOfSeq
    <2>4. open_line => N >= 1
      BY <1>0, <2>1, <2>2, EmptySeq
    <2> QED
      BY <2>1, <2>2, <2>3, <2>4
  <1>2. /\ text \in Seq(Fields) /\ text # <<>> /\ text[1].key = "ts"
        /\ \A i \in DOMAIN text : text[i].key = "hash" => text[i].value = ChainHash("sha", last_hash, Payload(event))
        /\ text = LineOf("sha", event, last_hash) \/ Damaged(text)
    BY DEF IsPiece
  <1>3. "sha" \in Kinds /\ M \in Nat /\ M >= 1
    BY <1>0, <1>1 DEF Kinds
  <1>4. PICK last : last = IF open_line THEN file[N] \o text ELSE text
    OBVIOUS
  <1>5. last \in Seq(Fields) /\ last # <<>> /\ (open_line => Damaged(last)) /\ (~open_line => last = text)
    BY <1>1, <1>2, <1>4, RunTogether
  <1>6. /\ file' \in Seq(Seq(Fields)) /\ Len(file') = M /\ DOMAIN file' = 1..M
        /\ file'[M] = last /\ \A n \in 1..(M - 1) : file'[n] = file[n]
    <2>1. CASE open_line
      <3>1. file' = [file EXCEPT ![N] = last] /\ N \in 1..Len(file) /\ M = N
        BY <1>0, <1>1, <1>4, <2>1 DEF Writing
      <3>2. /\ [file EXCEPT ![N] = last] \in Seq(Seq(Fields)) /\ Len([file EXCEPT ![N] = last]) = Len(file)
            /\ \A j \in 1..Len(file) : [file EXCEPT ![N] = last][j] = IF j = N THEN last ELSE file[j]
        BY <1>1, <1>5, <3>1, ExceptSeq
      <3>3. file' \in Seq(Seq(Fields)) /\ Len(file') = N /\ DOMAIN file' = 1..N
        BY <1>0, <3>1, <3>2
      <3>4. file'[N] = last /\ \A n \in 1..(N - 1) : file'[n] = file[n]
        BY <1>0, <1>1, <3>1, <3>2
      <3> QED
        BY <3>1, <3>3, <3>4
    <2>2. CASE ~open_line
      <3>1. file' = Append(file, last) /\ M = N + 1
        BY <1>0, <1>4, <2>2 DEF Writing
      <3> QED
        BY <1>0, <1>1, <1>5, <3>1, AppendProperties
    <2> QED
      BY <1>1, <2>1, <2>2
  <1>7. attempt \in Attempts
    BY <1>1 DEF Attempts
  <1>8. /\ tried' \in Seq(Attempts) /\ Len(tried') = T + 1 /\ DOMAIN tried' = 1..(T + 1)
        /\ tried'[T + 1] = attempt /\ \A a \in 1..T : tried'[a] = tried[a]
    <2>1. tried' = Append(tried, attempt)
      BY DEF Tried
    <2> HIDE DEF attempt
    <2> QED
      BY <1>0, <1>1, <1>7, <2>1
  <1>9. attempt.event = event /\ attempt.kept = kept /\ attempt.fresh = ~open_line
    OBVIOUS
  <1>10. kept => ChainHash("sha", last_hash, Payload(event)) \in Digests
    BY <1>1, <1>3, HashShape
  <1>11. last_hash' \in Digests /\ open_line' \in BOOLEAN
    BY <1>1, <1>10
  <1>12. \A n \in 1..(M - 1) : n \in 1..N
    BY <1>0, <1>1
  <1> HIDE DEF attempt
  <1>13. AuditTypes'
    <2>1. \A n \in 1..M : file'[n] # <<>>
      <3>1. \A n \in 1..M : n = M \/ n \in 1..(M - 1)
        BY <1>3
      <3> QED
        BY <1>1, <1>5, <1>6, <1>12, <3>1
    <2>2. file' # <<>>
      BY <1>3, <1>6, EmptySeq
    <2> QED
      BY <1>6, <1>8, <1>11, <2>1, <2>2 DEF AuditTypes
  <1>14. LinesShaped'
    <2>1. SUFFICES ASSUME NEW n \in 1..M PROVE Whole(file'[n]) \/ Damaged(file'[n])
      BY <1>6 DEF LinesShaped
    <2>2. CASE n = M
      <3>1. Damaged(last) \/ last = LineOf("sha", event, last_hash)
        BY <1>2, <1>5
      <3> QED
        BY <1>1, <1>3, <1>6, <2>2, <3>1 DEF Whole, LineFor
    <2>3. CASE n # M
      <3>1. n \in 1..(M - 1)
        BY <1>3, <2>3
      <3> QED
        BY <1>1, <1>6, <1>12, <3>1 DEF AuditInv, LinesShaped
    <2> QED
      BY <2>2, <2>3
  <1>15. \A n \in 0..(M - 1) : (IntactTo(n)' <=> IntactTo(n)) /\ Tip(n)' = Tip(n)
    <2>1. SUFFICES ASSUME NEW n \in 0..(M - 1) PROVE (IntactTo(n)' <=> IntactTo(n)) /\ Tip(n)' = Tip(n)
      OBVIOUS
    <2>2. \A m \in 1..n : file'[m] = file[m]
      BY <1>3, <1>6
    <2>3. IntactTo(n)' <=> IntactTo(n)
      BY <2>2 DEF IntactTo
    <2>4. n = 0 \/ n \in 1..n
      BY <1>3
    <2>5. Tip(n)' = Tip(n)
      BY <2>2, <2>4 DEF Tip
    <2> QED
      BY <2>3, <2>5
  <1>16. IntactTo(M)' => /\ ~open_line /\ last = LineOf("sha", event, last_hash) /\ ~Spelling(event)
                         /\ Prev(last) = last_hash /\ Hash(last) = ChainHash("sha", last_hash, Payload(event)) /\ last_hash = Tip(M - 1)'
    <2>1. SUFFICES ASSUME IntactTo(M)'
                   PROVE  /\ ~open_line /\ last = LineOf("sha", event, last_hash) /\ ~Spelling(event)
                          /\ Prev(last) = last_hash /\ Hash(last) = ChainHash("sha", last_hash, Payload(event)) /\ last_hash = Tip(M - 1)'
      OBVIOUS
    <2>2. ~Damaged(last) /\ IntactTo(M - 1)'
      <3>1. M \in 1..M /\ \A m \in 1..(M - 1) : m \in 1..M
        BY <1>3
      <3> QED
        BY <1>6, <2>1, <3>1 DEF IntactTo
    <2>3. ~open_line /\ last = LineOf("sha", event, last_hash)
      BY <1>2, <1>5, <2>2
    <2>4. ~Spelling(event)
      BY <1>1, <1>3, <2>2, <2>3, LineDamage
    <2>5. Prev(last) = last_hash /\ Hash(last) = ChainHash("sha", last_hash, Payload(event))
      BY <1>1, <1>3, <2>3, <2>4, LineReads
    <2>6. M - 1 = N /\ M - 1 \in 0..(M - 1)
      BY <1>0, <1>1, <1>3, <2>3
    <2>7. IntactTo(N)
      BY <1>15, <2>2, <2>6
    <2>8. last_hash = Tip(N)
      BY <1>0, <2>3, <2>7 DEF AuditInv, Chained
    <2> QED
      BY <1>15, <2>3, <2>4, <2>5, <2>6, <2>8
  <1>17. Chained'
    <2>1. ASSUME NEW n \in 1..M, IntactTo(n)' PROVE Prev(file'[n]) = Tip(n - 1)'
      <3>1. CASE n = M
        BY <1>6, <1>16, <2>1, <3>1
      <3>2. CASE n # M
        <4>1. n \in 1..(M - 1) /\ n \in 0..(M - 1) /\ n - 1 \in 0..(M - 1)
          BY <1>3, <3>2
        <4>2. IntactTo(n) /\ Tip(n - 1)' = Tip(n - 1) /\ file'[n] = file[n] /\ n \in DOMAIN file
          BY <1>1, <1>6, <1>12, <1>15, <2>1, <4>1
        <4> QED
          BY <4>2 DEF AuditInv, Chained
      <3> QED
        BY <3>1, <3>2
    <2>2. ASSUME IntactTo(M)', ~open_line' PROVE last_hash' = Tip(M)'
      <3>1. kept /\ Hash(last) = last_hash'
        BY <1>16, <2>2
      <3>2. Tip(M)' = Hash(last)
        BY <1>3, <1>6 DEF Tip
      <3> QED
        BY <3>1, <3>2
    <2> QED
      BY <1>6, <2>1, <2>2 DEF Chained
  <1>18. Chronicled'
    <2>1. PICK end \in [0..N -> 0..T] : Chronicle(end)
      BY <1>0 DEF AuditInv, Chronicled
    <2>2. PICK later : later = [n \in 0..M |-> IF n < M THEN end[n] ELSE T + 1]
      OBVIOUS
    <2>3. \A n \in 0..(M - 1) : n \in 0..N /\ end[n] \in 0..T /\ later[n] = end[n]
      <3>1. \A n \in 0..(M - 1) : n \in 0..N /\ n \in 0..M /\ n < M
        BY <1>0, <1>1, <1>3
      <3> QED
        BY <2>1, <2>2, <3>1
    <2>4. later[M] = T + 1
      BY <1>3, <2>2
    <2>5. later \in [0..M -> 0..(T + 1)]
      <3>1. \A n \in 0..M : n = M \/ n \in 0..(M - 1)
        BY <1>3
      <3>2. \A n \in 0..M : later[n] \in 0..(T + 1)
        BY <1>1, <2>3, <2>4, <3>1
      <3> QED
        BY <2>2, <3>2
    <2>6. \A n \in 1..M : later[n - 1] < later[n]
      <3>1. SUFFICES ASSUME NEW n \in 1..M PROVE later[n - 1] < later[n]
        OBVIOUS
      <3>2. n - 1 \in 0..(M - 1) /\ (n = M \/ (n \in 0..(M - 1) /\ n \in 1..(M - 1)))
        BY <1>3
      <3>3. CASE n = M
        BY <1>1, <2>3, <2>4, <3>2, <3>3
      <3>4. CASE n # M
        <4>1. n \in DOMAIN file
          BY <1>1, <1>12, <3>2, <3>4
        <4>2. end[n - 1] < end[n]
          BY <2>1, <4>1 DEF Chronicle
        <4> QED
          BY <2>3, <3>2, <3>4, <4>2
      <3> QED
        BY <3>3, <3>4
    <2>7. ASSUME NEW n \in 1..M, NEW i \in DOMAIN file'[n], file'[n][i].key = "hash"
          PROVE  \E a \in (later[n - 1] + 1)..later[n] : HashedBy(file'[n][i].value, tried'[a].event)
      <3>1. CASE n # M
        <4>1. n \in 1..(M - 1) /\ n \in 0..(M - 1) /\ n - 1 \in 0..(M - 1)
          BY <1>3, <3>1
        <4>2. n \in DOMAIN file /\ file'[n] = file[n]
          BY <1>1, <1>6, <1>12, <4>1
        <4>3. PICK a \in (end[n - 1] + 1)..end[n] : HashedBy(file[n][i].value, tried[a].event)
          BY <2>1, <2>7, <4>2 DEF Chronicle
        <4>4. a \in 1..T /\ a \in (later[n - 1] + 1)..later[n]
          BY <1>1, <2>3, <4>1, <4>3
        <4> QED
          BY <1>8, <4>2, <4>3, <4>4
      <3>2. CASE n = M
        <4>1. file'[n] = last /\ n - 1 \in 0..(M - 1) /\ later[n - 1] \in 0..T /\ later[n - 1] = end[n - 1] /\ later[n] = T + 1
          BY <1>3, <1>6, <2>3, <2>4, <3>2
        <4>2. T + 1 \in (later[n - 1] + 1)..later[n] /\ tried'[T + 1].event = event
          BY <1>1, <1>8, <1>9, <4>1
        <4>3. \A j \in DOMAIN text : text[j].key = "hash" => HashedBy(text[j].value, event)
          BY <1>1, <1>2, <1>3 DEF HashedBy
        <4>4. CASE ~open_line
          BY <1>5, <2>7, <4>1, <4>2, <4>3, <4>4
        <4>5. CASE open_line
          <5>1. N \in DOMAIN file /\ M = N /\ last = file[N] \o text /\ file[N] \in Seq(Fields) /\ file[N] # <<>>
            BY <1>0, <1>1, <1>4, <4>5
          <5>2. PICK line \in Seq(Fields) : line = file[N] /\ line # <<>>
            BY <5>1
          <5>3. /\ Len(line) \in Nat /\ Len(text) \in Nat /\ DOMAIN last = 1..(Len(line) + Len(text)) /\ DOMAIN line = 1..Len(line)
                /\ \A j \in 1..Len(line) : last[j] = line[j]
                /\ \A j \in (Len(line) + 1)..(Len(line) + Len(text)) : j - Len(line) \in DOMAIN text /\ last[j] = text[j - Len(line)]
            BY <1>2, <5>1, <5>2, RunTogether
          <5>4. CASE i \in 1..Len(line)
            <6>1. last[i] = file[N][i] /\ i \in DOMAIN file[N] /\ file[N][i].key = "hash"
              BY <2>7, <4>1, <5>2, <5>3, <5>4
            <6>2. PICK a \in (end[N - 1] + 1)..end[N] : HashedBy(file[N][i].value, tried[a].event)
              BY <2>1, <5>1, <6>1 DEF Chronicle
            <6>3. end[N] \in 0..T /\ end[N - 1] = later[n - 1]
              <7>1. N \in 0..N /\ n = N
                BY <1>1, <3>2, <5>1
              <7> QED
                BY <2>1, <4>1, <7>1
            <6>4. a \in 1..T /\ a \in (later[n - 1] + 1)..later[n]
              BY <1>1, <4>1, <6>2, <6>3
            <6> QED
              BY <1>8, <4>1, <6>1, <6>2, <6>4
          <5>5. CASE i \notin 1..Len(line)
            <6>1. i \in (Len(line) + 1)..(Len(line) + Len(text))
              BY <2>7, <4>1, <5>3, <5>5
            <6>2. PICK j \in DOMAIN text : last[i] = text[j]
              BY <5>3, <6>1
            <6>3. HashedBy(last[i].value, event)
              BY <2>7, <4>1, <4>3, <6>2
            <6> QED
              BY <4>1, <4>2, <6>3
          <5> QED
            BY <5>4, <5>5
        <4> QED
          BY <1>1, <4>4, <4>5
      <3> QED
        BY <3>1, <3>2
    <2>8. ASSUME NEW a \in KeptFresh'
          PROVE  \E n \in 1..M : later[n] = a /\ LineFor(file'[n], tried'[a].event)
      <3>1. a \in 1..(T + 1) /\ tried'[a].kept /\ tried'[a].fresh
        BY <1>8 DEF KeptFresh
      <3>2. CASE a = T + 1
        <4>1. kept /\ ~open_line /\ tried'[a].event = event
          BY <1>1, <1>8, <1>9, <3>1, <3>2
        <4>2. file'[M] = LineOf("sha", event, last_hash) /\ M \in 1..M
          BY <1>3, <1>5, <1>6, <4>1
        <4>3. LineFor(file'[M], tried'[a].event)
          BY <1>1, <1>3, <4>1, <4>2 DEF LineFor
        <4> QED
          BY <2>4, <3>2, <4>2, <4>3
      <3>3. CASE a # T + 1
        <4>1. a \in 1..T /\ tried'[a] = tried[a]
          BY <1>1, <1>8, <3>1, <3>3
        <4>2. a \in KeptFresh
          BY <1>1, <3>1, <4>1 DEF KeptFresh
        <4>3. PICK n \in DOMAIN file : end[n] = a /\ LineFor(file[n], tried[a].event)
          BY <2>1, <4>2 DEF Chronicle
        <4>4. ~(open_line /\ n = N)
          BY <1>0, <2>1, <4>2, <4>3 DEF Chronicle
        <4>5. n \in 1..(M - 1) /\ n \in 0..(M - 1) /\ n \in 1..M
          BY <1>0, <1>1, <4>3, <4>4
        <4> QED
          BY <1>6, <2>3, <4>1, <4>3, <4>5
      <3> QED
        BY <3>2, <3>3
    <2>9. open_line' => later[M] \notin KeptFresh'
      <3>1. open_line' => ~tried'[T + 1].kept
        BY <1>8, <1>9
      <3> QED
        BY <2>4, <3>1 DEF KeptFresh
    <2>10. Chronicle(later)'
      BY <1>6, <2>6, <2>7, <2>8, <2>9 DEF Chronicle
    <2> QED
      BY <1>6, <1>8, <2>5, <2>10 DEF Chronicled
  <1>19. LineEach'
    <2>1. SUFFICES ASSUME EachKept'
                   PROVE  ~open_line' /\ M = T + 1 /\ \A n \in 1..M : LineFor(file'[n], tried'[n].event)
      BY <1>6, <1>8 DEF LineEach
    <2>2. \A a \in 1..(T + 1) : tried'[a].kept /\ ~Spelling(tried'[a].event)
      BY <1>8, <2>1 DEF EachKept
    <2>3. kept
      <3>1. T + 1 \in 1..(T + 1)
        BY <1>1
      <3> QED
        BY <1>8, <1>9, <2>2, <3>1
    <2>4. EachKept
      <3>1. \A a \in 1..T : a \in 1..(T + 1) /\ tried'[a] = tried[a]
        BY <1>1, <1>8
      <3> QED
        BY <1>1, <2>2, <3>1 DEF EachKept
    <2>5. ~open_line /\ N = T /\ \A n \in DOMAIN file : LineFor(file[n], tried[n].event)
      BY <1>0, <2>4 DEF AuditInv, LineEach
    <2>6. M = T + 1
      BY <1>0, <2>5
    <2>7. ASSUME NEW n \in 1..M PROVE LineFor(file'[n], tried'[n].event)
      <3>1. CASE n = M
        <4>1. file'[n] = LineOf("sha", event, last_hash) /\ tried'[n].event = event
          BY <1>5, <1>6, <1>8, <1>9, <2>3, <2>5, <2>6, <3>1
        <4> QED
          BY <1>1, <1>3, <4>1 DEF LineFor
      <3>2. CASE n # M
        <4>1. n \in 1..(M - 1) /\ n \in 1..T /\ n \in DOMAIN file
          BY <1>1, <1>3, <2>5, <2>6, <3>2
        <4> QED
          BY <1>6, <1>8, <2>5, <4>1
      <3> QED
        BY <3>1, <3>2
    <2> QED
      BY <2>3, <2>6, <2>7
  <1> QED
    BY <1>13, <1>14, <1>17, <1>18, <1>19 DEF AuditInv

\* A write that fails before anything reached the file.
LEMMA NothingKeepsInv ==
    ASSUME AuditInv, NEW event \in AllEvents, Tried(event, FALSE), UNCHANGED <<file, open_line, last_hash>>
    PROVE  AuditInv'
  <1>1. PICK N, T, attempt : N = Len(file) /\ T = Len(tried) /\ attempt = [event |-> event, kept |-> FALSE, fresh |-> ~open_line]
    OBVIOUS
  <1>2. /\ file \in Seq(Seq(Fields)) /\ tried \in Seq(Attempts) /\ open_line \in BOOLEAN
        /\ N \in Nat /\ DOMAIN file = 1..N /\ T \in Nat /\ DOMAIN tried = 1..T
    BY <1>1 DEF AuditInv, AuditTypes
  <1>3. attempt \in Attempts /\ attempt.kept = FALSE
    BY <1>1, <1>2 DEF Attempts
  <1>4. /\ tried' \in Seq(Attempts) /\ Len(tried') = T + 1 /\ DOMAIN tried' = 1..(T + 1)
        /\ tried'[T + 1] = attempt /\ \A a \in 1..T : tried'[a] = tried[a]
    <2>1. tried' = Append(tried, attempt)
      BY <1>1 DEF Tried
    <2> QED
      BY <1>1, <1>2, <1>3, <2>1
  <1>5. AuditTypes' /\ LinesShaped' /\ Chained'
    <2>1. AuditTypes'
      BY <1>4 DEF AuditInv, AuditTypes
    <2>2. LinesShaped'
      BY DEF AuditInv, LinesShaped
    <2>3. Chained'
      BY DEF AuditInv, Chained, IntactTo, Tip
    <2> QED
      BY <2>1, <2>2, <2>3
  <1>6. KeptFresh' = KeptFresh
    <2>1. \A a \in 1..(T + 1) : a = T + 1 \/ a \in 1..T
      BY <1>2
    <2> QED
      BY <1>2, <1>3, <1>4, <2>1 DEF KeptFresh
  <1>7. Chronicled'
    <2>1. PICK end \in [0..N -> 0..T] : Chronicle(end)
      BY <1>1 DEF AuditInv, Chronicled
    <2>2. end \in [0..N -> 0..(T + 1)]
      BY <1>2, <2>1
    <2>3. ASSUME NEW n \in DOMAIN file, NEW i \in DOMAIN file[n], file[n][i].key = "hash"
          PROVE  \E a \in (end[n - 1] + 1)..end[n] : HashedBy(file[n][i].value, tried'[a].event)
      <3>1. PICK a \in (end[n - 1] + 1)..end[n] : HashedBy(file[n][i].value, tried[a].event)
        BY <2>1, <2>3 DEF Chronicle
      <3>2. n \in 0..N /\ n - 1 \in 0..N
        BY <1>2
      <3>3. end[n] \in 0..T /\ end[n - 1] \in 0..T
        BY <2>1, <3>2
      <3>4. a \in 1..T
        BY <1>2, <3>1, <3>3
      <3> QED
        BY <1>4, <3>1, <3>4
    <2>4. ASSUME NEW a \in KeptFresh' PROVE \E n \in DOMAIN file : end[n] = a /\ LineFor(file[n], tried'[a].event)
      <3>1. a \in KeptFresh /\ a \in 1..T
        BY <1>2, <1>6 DEF KeptFresh
      <3>2. PICK n \in DOMAIN file : end[n] = a /\ LineFor(file[n], tried[a].event)
        BY <2>1, <3>1 DEF Chronicle
      <3> QED
        BY <1>4, <3>1, <3>2
    <2>5. \A n \in DOMAIN file : end[n - 1] < end[n]
      BY <2>1 DEF Chronicle
    <2>6. open_line => end[Len(file)] \notin KeptFresh'
      BY <1>6, <2>1 DEF Chronicle
    <2>7. Chronicle(end)'
      BY <2>3, <2>4, <2>5, <2>6 DEF Chronicle
    <2> QED
      BY <1>1, <1>4, <2>2, <2>7 DEF Chronicled
  <1>8. ~EachKept'
    <2>1. T + 1 \in DOMAIN tried' /\ ~tried'[T + 1].kept
      BY <1>2, <1>3, <1>4
    <2> QED
      BY <2>1 DEF EachKept
  <1> QED
    BY <1>5, <1>7, <1>8 DEF AuditInv, LineEach

\* The digest a reopened file continues is that of its last line, when the file is intact.
LEMMA LastWritten ==
    ASSUME file \in Seq(Seq(Fields)), LinesShaped
    PROVE  LastWrittenDigest(file) \in Digests /\ (IntactTo(Len(file)) => LastWrittenDigest(file) = Tip(Len(file)))
  <1>1. PICK N : N = Len(file)
    OBVIOUS
  <1>2. N \in Nat /\ DOMAIN file = 1..N
    BY <1>1
  <1>3. \A n \in 1..N : file[n] \in Seq(Fields)
    BY <1>1, <1>2, ElementOfSeq
  <1>4. PICK chained : chained = {n \in DOMAIN file : HasMeta(file[n])}
    OBVIOUS
  <1>5. LastWrittenDigest(file) = IF chained = {} THEN Genesis ELSE Hash(file[Max(chained)])
    BY <1>4 DEF LastWrittenDigest
  <1>6. Genesis \in Digests
    BY EmptySeq DEF Genesis, Digests
  <1>7. chained # {} => Max(chained) \in chained /\ \A n \in chained : n <= Max(chained)
    <2>1. SUFFICES ASSUME chained # {} PROVE Max(chained) \in chained /\ \A n \in chained : n <= Max(chained)
      OBVIOUS
    <2>2. chained \in SUBSET (-1..N)
      BY <1>2, <1>4
    <2>3. \E x \in chained : \A y \in chained : y <= x
      BY <1>2, <2>1, <2>2, GreatestElement
    <2>4. PICK x \in chained : \A y \in chained : x >= y
      BY <1>2, <1>4, <2>3
    <2>5. Max(chained) \in chained /\ \A y \in chained : Max(chained) >= y
      BY <2>4 DEF Max
    <2> QED
      BY <1>2, <1>4, <2>5
  <1>8. LastWrittenDigest(file) \in Digests
    <2>1. CASE chained = {}
      BY <1>5, <1>6, <2>1
    <2>2. CASE chained # {}
      <3>1. PICK n \in 1..N : n = Max(chained) /\ HasMeta(file[n])
        BY <1>2, <1>4, <1>7, <2>2
      <3> QED
        BY <1>3, <1>5, <2>2, <3>1, MetaFound
    <2> QED
      BY <2>1, <2>2
  <1>9. ASSUME IntactTo(N) PROVE LastWrittenDigest(file) = Tip(N)
    <2>1. CASE N = 0
      <3>1. chained = {}
        BY <1>2, <1>4, <2>1
      <3> QED
        BY <1>5, <2>1, <3>1 DEF Tip
    <2>2. CASE N # 0
      <3>1. N \in 1..N
        BY <1>2, <2>2
      <3>2. ~Damaged(file[N]) /\ Whole(file[N])
        BY <1>2, <1>9, <3>1 DEF IntactTo, LinesShaped
      <3>3. PICK kind \in Kinds, prev \in Digests, event \in AllEvents : file[N] = LineOf(kind, event, prev)
        BY <3>2 DEF Whole, LineFor
      <3>4. ~Spelling(event)
        BY <3>2, <3>3, LineDamage
      <3>5. HasMeta(file[N])
        BY <3>3, <3>4, LineReads
      <3>6. N \in chained
        BY <1>2, <1>4, <3>1, <3>5
      <3>7. Max(chained) = N
        <4>1. Max(chained) \in 1..N /\ N <= Max(chained)
          BY <1>2, <1>4, <1>7, <3>6
        <4> QED
          BY <1>2, <4>1
      <3> QED
        BY <1>5, <2>2, <3>6, <3>7 DEF Tip
    <2> QED
      BY <2>1, <2>2
  <1> QED
    BY <1>1, <1>8, <1>9

\* A restart continues from the last line with chain fields.
LEMMA AuditRestartKeepsInv ==
    ASSUME AuditInv, AuditRestart
    PROVE  AuditInv'
  <1>1. last_hash' = LastWrittenDigest(file) /\ UNCHANGED <<file, open_line, tried>>
    BY DEF AuditRestart
  <1>2. LastWrittenDigest(file) \in Digests /\ (IntactTo(Len(file)) => LastWrittenDigest(file) = Tip(Len(file)))
    BY LastWritten DEF AuditInv, AuditTypes
  <1>3. AuditTypes'
    BY <1>1, <1>2 DEF AuditInv, AuditTypes
  <1>4. LinesShaped' /\ LineEach'
    BY <1>1 DEF AuditInv, LinesShaped, LineEach, EachKept
  <1>5. Chained'
    BY <1>1, <1>2 DEF AuditInv, Chained, IntactTo, Tip
  <1>6. Chronicled'
    BY <1>1 DEF AuditInv, Chronicled, Chronicle, KeptFresh
  <1> QED
    BY <1>3, <1>4, <1>5, <1>6 DEF AuditInv

\* Every step of the audit log keeps the invariant.
LEMMA AuditStepInv ==
    ASSUME AuditInv, AuditNext
    PROVE  AuditInv'
  <1>1. last_hash \in Digests /\ open_line \in BOOLEAN
    BY DEF AuditInv, AuditTypes
  <1>2. ASSUME NEW event \in AuditEvents, RecordAppended(event) PROVE AuditInv'
    <2>1. event \in AllEvents
      BY DEF AllEvents
    <2>2. PICK text : text = LineOf("sha", event, last_hash)
      OBVIOUS
    <2>3. IsPiece(text, event, last_hash)
      BY <1>1, <2>1, <2>2, WholePiece
    <2>4. Writing(text) /\ Tried(event, TRUE) /\ open_line' = ~TRUE /\ last_hash' = ChainHash("sha", last_hash, Payload(event))
      BY <1>2, <2>2 DEF RecordAppended, LastHashAfter
    <2> QED
      BY <2>1, <2>2, <2>3, <2>4, PieceKeepsInv
  <1>3. ASSUME NEW event \in AuditEvents, RecordFailed(event) PROVE AuditInv'
    <2>1. event \in AllEvents /\ Tried(event, FALSE) /\ last_hash' = last_hash
      BY <1>3 DEF AllEvents, RecordFailed, LastHashKept
    <2>2. CASE UNCHANGED <<file, open_line>>
      BY <2>1, <2>2, NothingKeepsInv
    <2>3. CASE \E text \in Beginnings(LineOf("sha", event, last_hash)) : Writing(text) /\ open_line' = TRUE
      <3>1. PICK text \in Beginnings(LineOf("sha", event, last_hash)) : Writing(text) /\ open_line' = TRUE
        BY <2>3
      <3>2. IsPiece(text, event, last_hash)
        BY <1>1, <2>1, Beginning
      <3>3. open_line' = ~FALSE
        BY <3>1
      <3> QED
        BY <2>1, <3>1, <3>2, <3>3, PieceKeepsInv
    <2> QED
      BY <1>3, <2>2, <2>3 DEF RecordFailed
  <1> QED
    BY <1>2, <1>3, AuditRestartKeepsInv DEF AuditNext

\* It speaks of the audit log only.
LEMMA AuditStutterInv ==
    ASSUME AuditInv, UNCHANGED auditVars
    PROVE  AuditInv'
  <1>1. UNCHANGED <<file, open_line, last_hash, tried>>
    BY DEF auditVars
  <1>2. AuditTypes' /\ LinesShaped' /\ LineEach'
    BY <1>1 DEF AuditInv, AuditTypes, LinesShaped, LineEach, EachKept
  <1>3. Chained'
    BY <1>1 DEF AuditInv, Chained, IntactTo, Tip
  <1>4. Chronicled'
    BY <1>1 DEF AuditInv, Chronicled, Chronicle, KeptFresh
  <1> QED
    BY <1>2, <1>3, <1>4 DEF AuditInv

\* It holds of a new file and of a file an old release left.
LEMMA AuditInitInv == AuditInit => AuditInv
  <1> SUFFICES ASSUME AuditInit PROVE AuditInv
    OBVIOUS
  <1>1. PICK old \in LegacyEvents : /\ file = LegacyFile(old)
                                    /\ tried = [n \in DOMAIN old |-> [event |-> old[n], kept |-> TRUE, fresh |-> TRUE]]
    BY DEF AuditInit
  <1>2. last_hash = LastWrittenDigest(file) /\ open_line = FALSE
    BY DEF AuditInit
  <1>3. PICK N : N = Len(old)
    OBVIOUS
  <1>4. old \in Seq(AllEvents) /\ N \in Nat /\ DOMAIN old = 1..N /\ \A n \in 1..N : old[n] \in AllEvents
    BY <1>3, AuditAssumption
  <1> DEFINE links == Kinds \X {Payload(event) : event \in AllEvents}
             link(n) == <<"fnv", Payload(old[n])>>
             digest(k) == [m \in 1..k |-> link(m)]
  <1>5. "fnv" \in Kinds
    BY DEF Kinds
  <1>6. \A n \in 1..N : link(n) \in links
    BY <1>4, <1>5
  <1>7. ASSUME NEW k \in 0..N PROVE digest(k) \in Digests /\ Len(digest(k)) = k
    <2>1. k \in Nat /\ \A m \in 1..k : link(m) \in links
      BY <1>4, <1>6
    <2> HIDE DEF links, link
    <2>2. digest(k) \in Seq(links)
      BY <2>1, IsASeq
    <2>3. Len(digest(k)) = k
      BY <2>1
    <2> QED
      BY <2>2, <2>3 DEF Digests, links
  <1>8. ASSUME NEW n \in 1..N PROVE ChainHash("fnv", digest(n - 1), Payload(old[n])) = digest(n)
    <2>1. n - 1 \in 0..N /\ n \in 0..N /\ n - 1 + 1 = n
      BY <1>4
    <2>2. digest(n - 1) \in Seq(links) /\ Len(digest(n - 1)) = n - 1 /\ digest(n) \in Seq(links) /\ Len(digest(n)) = n
      BY <1>7, <2>1 DEF Digests
    <2>3. \A m \in 1..(n - 1) : digest(n - 1)[m] = link(m) /\ digest(n)[m] = link(m)
      BY <1>4
    <2>4. digest(n)[n] = link(n) /\ link(n) \in links
      BY <1>4, <1>6
    <2>5. PICK before, after, new : before = digest(n - 1) /\ after = digest(n) /\ new = link(n)
      OBVIOUS
    <2> HIDE DEF links, digest, link
    <2>6. /\ Append(before, new) \in Seq(links) /\ Len(Append(before, new)) = n /\ Append(before, new)[n] = after[n]
          /\ \A m \in 1..(n - 1) : Append(before, new)[m] = after[m]
      BY <2>1, <2>2, <2>3, <2>4, <2>5, AppendProperties
    <2>7. \A m \in 1..n : m = n \/ m \in 1..(n - 1)
      OBVIOUS
    <2>8. \A m \in 1..n : Append(before, new)[m] = after[m]
      BY <2>6, <2>7
    <2>9. Append(before, new) = after
      BY <2>2, <2>5, <2>6, <2>8, SeqEqual
    <2> QED
      BY <2>5, <2>9 DEF ChainHash, link
  <1>9. DOMAIN file = 1..N /\ \A n \in 1..N : file[n] = LineOf("fnv", old[n], digest(n - 1))
    BY <1>1, <1>4 DEF LegacyFile
  <1>10. \A n \in 1..N : n - 1 \in 0..N /\ n \in 0..N
    BY <1>4
  <1> HIDE DEF digest, links, link
  <1>11. ASSUME NEW n \in 1..N PROVE Laid(file[n], "fnv", old[n], digest(n - 1)) /\ LineFor(file[n], old[n])
    <2>1. digest(n - 1) \in Digests /\ old[n] \in AllEvents
      BY <1>4, <1>7, <1>10
    <2>2. file[n] = LineOf("fnv", old[n], digest(n - 1))
      BY <1>9
    <2>3. Laid(file[n], "fnv", old[n], digest(n - 1))
      BY <1>5, <2>1, <2>2, LineHas
    <2> QED
      BY <1>5, <2>1, <2>2, <2>3 DEF LineFor
  <1>12. /\ file \in Seq(Seq(Fields)) /\ Len(file) = N
         /\ tried \in Seq(Attempts) /\ Len(tried) = N /\ DOMAIN tried = 1..N /\ \A n \in 1..N : tried[n].event = old[n]
    <2>1. \A n \in 1..N : file[n] \in Seq(Fields)
      BY <1>11 DEF Laid
    <2>2. file = [n \in 1..N |-> file[n]]
      BY <1>1, <1>4 DEF LegacyFile
    <2>3. file \in Seq(Seq(Fields))
      BY <1>4, <2>1, <2>2, IsASeq
    <2>4. Len(file) = N
      BY <1>4, <1>9, <2>3
    <2>5. tried = [n \in 1..N |-> tried[n]] /\ \A n \in 1..N : tried[n] \in Attempts /\ tried[n].event = old[n]
      BY <1>1, <1>4 DEF Attempts
    <2>6. tried \in Seq(Attempts)
      BY <1>4, <2>5, IsASeq
    <2>7. Len(tried) = N /\ DOMAIN tried = 1..N
      BY <1>4, <2>5, <2>6
    <2> QED
      BY <2>3, <2>4, <2>5, <2>6, <2>7
  <1>13. LinesShaped
    BY <1>4, <1>9, <1>11 DEF LinesShaped, Whole
  <1>14. last_hash \in Digests /\ (IntactTo(Len(file)) => last_hash = Tip(Len(file)))
    BY <1>2, <1>12, <1>13, LastWritten
  <1>15. AuditTypes
    <2>1. \A n \in 1..N : file[n] # <<>>
      <3>1. SUFFICES ASSUME NEW n \in 1..N PROVE file[n] # <<>>
        OBVIOUS
      <3>2. Len(file[n]) = 9
        BY <1>11 DEF Laid
      <3> QED
        BY <3>2
    <2> QED
      BY <1>2, <1>9, <1>12, <1>14, <2>1 DEF AuditTypes
  <1>16. Chained
    <2>1. ASSUME NEW n \in 1..N, IntactTo(n) PROVE Prev(file[n]) = Tip(n - 1)
      <3>1. ASSUME NEW m \in 1..n PROVE Prev(file[m]) = digest(m - 1) /\ Hash(file[m]) = digest(m)
        <4>1. m \in 1..N /\ ~Damaged(file[m])
          BY <1>4, <2>1 DEF IntactTo
        <4>2. PICK prev \in Digests, event \in AllEvents : prev = digest(m - 1) /\ event = old[m]
          BY <1>4, <1>7, <1>10, <4>1
        <4>3. file[m] = LineOf("fnv", event, prev)
          BY <1>9, <4>1, <4>2
        <4>4. ~Spelling(event)
          BY <1>5, <4>1, <4>3, LineDamage
        <4>5. Prev(file[m]) = prev /\ Hash(file[m]) = ChainHash("fnv", prev, Payload(event))
          BY <1>5, <4>3, <4>4, LineReads
        <4> QED
          BY <1>8, <4>1, <4>2, <4>5
      <3>2. n \in 1..n /\ (n = 1 \/ n - 1 \in 1..n)
        BY <1>4
      <3>3. CASE n = 1
        <4>1. digest(0) = Genesis
          BY DEF digest, Genesis
        <4> QED
          BY <3>1, <3>2, <3>3, <4>1 DEF Tip
      <3>4. CASE n # 1
        <4>1. n - 1 \in 1..n /\ n - 1 # 0
          BY <1>4, <3>2, <3>4
        <4> QED
          BY <3>1, <3>2, <4>1 DEF Tip
      <3> QED
        BY <3>3, <3>4
    <2> QED
      BY <1>9, <1>14, <2>1 DEF Chained
  <1>17. Chronicled
    <2>1. PICK end : end = [n \in 0..N |-> n]
      OBVIOUS
    <2>2. end \in [0..N -> 0..N] /\ \A n \in 0..N : end[n] = n
      BY <2>1
    <2>3. \A n \in 1..N : end[n - 1] = n - 1 /\ end[n] = n
      BY <1>10, <2>2
    <2>4. ASSUME NEW n \in 1..N, NEW i \in DOMAIN file[n], file[n][i].key = "hash"
          PROVE  \E a \in (end[n - 1] + 1)..end[n] : HashedBy(file[n][i].value, tried[a].event)
      <3>1. Laid(file[n], "fnv", old[n], digest(n - 1))
        BY <1>11
      <3>2. i \in 1..9 /\ Columns[i] = Columns[9]
        BY <2>4, <3>1, ColumnsAre DEF Laid
      <3>3. i = 9
        BY <3>2, ColumnsAre
      <3>4. file[n][i].value = ChainHash("fnv", digest(n - 1), Payload(old[n]))
        BY <3>1, <3>3 DEF Laid
      <3>5. digest(n - 1) \in Digests
        BY <1>7, <1>10
      <3>6. n \in (end[n - 1] + 1)..end[n]
        BY <1>4, <2>3
      <3> QED
        BY <1>5, <1>12, <3>4, <3>5, <3>6 DEF HashedBy
    <2>5. \A a \in KeptFresh : a \in DOMAIN file /\ end[a] = a /\ LineFor(file[a], tried[a].event)
      BY <1>9, <1>11, <1>12, <2>3 DEF KeptFresh
    <2>6. \A n \in 1..N : end[n - 1] < end[n]
      BY <2>3
    <2>7. Chronicle(end)
      BY <1>2, <1>9, <2>4, <2>5, <2>6 DEF Chronicle
    <2> QED
      BY <1>12, <2>2, <2>7 DEF Chronicled
  <1>18. LineEach
    BY <1>2, <1>9, <1>11, <1>12 DEF LineEach
  <1> QED
    BY <1>13, <1>15, <1>16, <1>17, <1>18 DEF AuditInv

\* The audit file tells what was recorded.
THEOREM AuditLogTrue == AuditSpec => []AuditSafe
  <1>1. AuditInv /\ [AuditNext]_auditVars => AuditInv'
    BY AuditStepInv, AuditStutterInv
  <1>2. AuditInv => AuditSafe
    BY InvClean, InvGenuine DEF AuditSafe
  <1> QED
    BY AuditInitInv, <1>1, <1>2, PTL DEF AuditSpec

-----------------------------------------------------------------------------
(***************************************************************************)
(* The tenant registry.                                                    *)

AllKeys == Tenants \X Nat \X Nat
KeysNow(id) == IF Known(id) THEN tenants[id].keys ELSE {}

Records == [id : Tenants, status : Statuses, keys : SUBSET AllKeys]
PutCalls == [pc : {"putting", "batch put"}, id : Tenants, record : Records, made : SUBSET AllKeys, dropped : SUBSET AllKeys,
             given : SUBSET Statuses, seen : Nat, old : SUBSET AllKeys]
DeleteCalls == [pc : {"deleting", "batch delete"}, id : Tenants, seen : Nat, old : SUBSET AllKeys]
UpdateCalls == [pc : {"updating"}, id : Tenants, status : Statuses, given : SUBSET Statuses, seen : Nat]

OfTenant(set, id) == \A k \in set : k[1] = id

TenantTypes ==
    /\ durable \in BOOLEAN /\ key_counter \in Nat /\ boot \in Nat
    /\ DOMAIN tenants \subseteq Tenants
    /\ \A id \in DOMAIN tenants : tenants[id] \in Records /\ tenants[id].id = id /\ OfTenant(tenants[id].keys, id)
    /\ DOMAIN by_digest \subseteq AllKeys /\ \A k \in DOMAIN by_digest : by_digest[k] = k[1]
    /\ request \in [Callers -> {Ready} \union PutCalls \union DeleteCalls \union UpdateCalls]
    /\ stamp \in [Tenants -> Nat] /\ wanted \in [Tenants -> Statuses]
    /\ shown \subseteq AllKeys /\ gone \subseteq shown

\* A key is given out once: what has been shown or is about to be was taken from the counter of its process.
Taken(k) == k[2] < boot \/ (k[2] = boot /\ k[3] < key_counter)
Made(c) == IF request[c] \in PutCalls THEN request[c].made ELSE {}
KeysTaken ==
    /\ \A k \in shown : Taken(k)
    /\ \A c \in Callers : \A k \in Made(c) : Taken(k) /\ k \notin shown
    /\ \A c, d \in Callers : c # d => Made(c) \cap Made(d) = {}
    /\ \A id \in DOMAIN tenants : tenants[id].keys \subseteq shown

\* A call works for its tenant, and when nobody wrote the tenant since it read it, what it is about to write
\* follows from what is there.
PutSound(r) ==
    /\ r.record.id = r.id /\ OfTenant(r.record.keys, r.id) /\ OfTenant(r.made, r.id) /\ OfTenant(r.dropped, r.id) /\ OfTenant(r.old, r.id)
    /\ r.record.keys \subseteq shown \union r.made /\ r.dropped \subseteq shown
    /\ r.seen <= stamp[r.id]
    /\ r.seen = stamp[r.id] =>
          /\ r.dropped \subseteq KeysNow(r.id) /\ r.record.keys = (KeysNow(r.id) \union r.made) \ r.dropped
          /\ r.given = {} => Known(r.id) /\ r.record.status = tenants[r.id].status
          /\ r.pc = "batch put" => r.old = KeysNow(r.id)
DeleteSound(r) ==
    /\ OfTenant(r.old, r.id) /\ r.seen <= stamp[r.id]
    /\ r.seen = stamp[r.id] /\ r.pc = "batch delete" => r.old = KeysNow(r.id)
UpdateSound(r) ==
    /\ r.seen <= stamp[r.id]
    /\ r.seen = stamp[r.id] /\ r.given = {} => Known(r.id) /\ r.status = tenants[r.id].status
CallSound(r) ==
    /\ r \in PutCalls => PutSound(r)
    /\ r \in DeleteCalls => DeleteSound(r)
    /\ r \in UpdateCalls => UpdateSound(r)
CallsSound == \A c \in Callers : CallSound(request[c])

\* The index holds the keys of the records, and no others where it is kept in step.
IndexSound ==
    \A id \in Tenants :
        /\ KeysNow(id) \subseteq DOMAIN by_digest
        /\ ~durable \/ id \notin raced => \A k \in DOMAIN by_digest : k[1] = id => k \in KeysNow(id)
ShownSound ==
    \A id \in Tenants : id \notin raced => \A k \in shown : k[1] = id => (k \in KeysNow(id) <=> k \notin gone)

TenantInv == TenantTypes /\ KeysTaken /\ CallsSound /\ IndexSound /\ ShownSound /\ StatusKept

Calls == {Ready} \union PutCalls \union DeleteCalls \union UpdateCalls

\* The second map wins.
LEMMA OverAt ==
    ASSUME NEW f, NEW g
    PROVE  /\ DOMAIN Over(f, g) = DOMAIN f \union DOMAIN g
           /\ \A x \in DOMAIN g : Over(f, g)[x] = g[x]
           /\ \A x \in DOMAIN f : x \notin DOMAIN g => Over(f, g)[x] = f[x]
  BY DEF Over

\* A map without some of its keys.
LEMMA DropAt ==
    ASSUME NEW f, NEW S
    PROVE  /\ DOMAIN Drop(f, S) = DOMAIN f \ S
           /\ \A x \in DOMAIN f \ S : Drop(f, S)[x] = f[x]
  BY DEF Drop, Restrict

\* The keys of one tenant.
LEMMA AssignAt ==
    ASSUME NEW S, NEW id
    PROVE  DOMAIN Assign(S, id) = S /\ \A x \in S : Assign(S, id)[x] = id
  BY DEF Assign

\* A call is told by its pc.
LEMMA CallKinds ==
    ASSUME NEW r \in Calls
    PROVE  /\ r.pc \in {"putting", "batch put"} <=> r \in PutCalls
           /\ r.pc \in {"deleting", "batch delete"} <=> r \in DeleteCalls
           /\ r.pc = "updating" <=> r \in UpdateCalls
           /\ r = Ready => r \notin PutCalls /\ r \notin DeleteCalls /\ r \notin UpdateCalls
  <1>1. r \in PutCalls => r.pc \in {"putting", "batch put"}
    BY DEF PutCalls
  <1>2. r \in DeleteCalls => r.pc \in {"deleting", "batch delete"}
    BY DEF DeleteCalls
  <1>3. r \in UpdateCalls => r.pc = "updating"
    BY DEF UpdateCalls
  <1>4. r = Ready => r.pc = "ready"
    BY DEF Ready
  <1>5. r = Ready \/ r \in PutCalls \/ r \in DeleteCalls \/ r \in UpdateCalls
    BY DEF Calls
  <1> QED
    BY <1>1, <1>2, <1>3, <1>4, <1>5

\* A call goes on without a write: what it carries then fits what is there, and a key it made comes fresh
\* from the counter.
LEMMA ReadKeepsInv ==
    ASSUME TenantInv, NEW c \in Callers, NEW r \in Calls, CallSound(r),
           request' = [request EXCEPT ![c] = r],
           UNCHANGED <<durable, tenants, by_digest, boot, tenantHistory>>,
           key_counter' \in Nat, key_counter <= key_counter',
           r \in PutCalls => r.made \subseteq Made(c) \/ \A k \in r.made : ~Taken(k) /\ k[2] = boot /\ k[3] < key_counter'
    PROVE  TenantInv'
  <1> DEFINE mine == IF r \in PutCalls THEN r.made ELSE {}
  <1>1. /\ request \in [Callers -> Calls] /\ request' \in [Callers -> Calls]
        /\ request'[c] = r /\ \A d \in Callers : d # c => request'[d] = request[d]
    BY DEF TenantInv, TenantTypes, Calls
  <1>2. UNCHANGED <<durable, tenants, by_digest, boot, stamp, wanted, raced, shown, gone>>
    BY DEF tenantHistory
  <1>3. TenantTypes'
    BY <1>1, <1>2 DEF TenantInv, TenantTypes, Calls, OfTenant
  <1>4. KeysTaken'
    <2>1. \A k : Taken(k) /\ k \in AllKeys => Taken(k)'
      BY <1>2 DEF Taken, TenantInv, TenantTypes, AllKeys
    <2>2. \A d \in Callers : Made(d) \subseteq AllKeys /\ mine \subseteq AllKeys
      BY <1>1 DEF Made, PutCalls
    <2>3. Made(c)' = mine /\ \A d \in Callers : d # c => Made(d)' = Made(d)
      BY <1>1 DEF Made
    <2>4. \/ mine \subseteq Made(c)
          \/ \A k \in mine : ~Taken(k) /\ Taken(k)'
      <3>1. CASE mine \subseteq Made(c)
        BY <3>1
      <3>2. CASE \A k \in mine : ~Taken(k) /\ k[2] = boot /\ k[3] < key_counter'
        BY <3>2, <1>2 DEF Taken
      <3> QED
        BY <3>1, <3>2
    <2> HIDE DEF mine
    <2>5. \A k \in mine : Taken(k)' /\ k \notin shown
      BY <2>1, <2>2, <2>4 DEF TenantInv, KeysTaken
    <2>6. \A d \in Callers : d # c => Made(d) \cap mine = {}
      BY <2>4 DEF TenantInv, KeysTaken
    <2>7. \A k \in shown' : Taken(k)'
      BY <2>1, <1>2 DEF TenantInv, TenantTypes, KeysTaken
    <2>8. \A d \in Callers : \A k \in Made(d)' : Taken(k)' /\ k \notin shown'
      <3>1. TAKE d \in Callers
      <3>2. CASE d = c
        BY <3>2, <2>3, <2>5, <1>2
      <3>3. CASE d # c
        BY <3>3, <2>1, <2>2, <2>3, <1>2 DEF TenantInv, KeysTaken
      <3> QED
        BY <3>2, <3>3
    <2>9. \A d, e \in Callers : d # e => Made(d)' \cap Made(e)' = {}
      <3>1. TAKE d, e \in Callers
      <3>2. CASE d = c \/ e = c
        BY <3>2, <2>3, <2>6
      <3>3. CASE d # c /\ e # c
        BY <3>3, <2>3 DEF TenantInv, KeysTaken
      <3> QED
        BY <3>2, <3>3
    <2>10. \A id \in DOMAIN tenants' : tenants'[id].keys \subseteq shown'
      BY <1>2 DEF TenantInv, KeysTaken
    <2> QED
      BY <2>7, <2>8, <2>9, <2>10 DEF KeysTaken
  <1>5. CallsSound'
    <2>1. \A d : CallSound(d) => CallSound(d)'
      BY <1>2 DEF CallSound, PutSound, DeleteSound, UpdateSound, KeysNow, Known
    <2>2. CallSound(r)'
      BY <2>1
    <2> QED
      BY <1>1, <2>1, <2>2 DEF TenantInv, CallsSound
  <1>6. IndexSound' /\ ShownSound' /\ StatusKept'
    BY <1>2 DEF TenantInv, IndexSound, ShownSound, StatusKept, KeysNow, Known
  <1> QED
    BY <1>3, <1>4, <1>5, <1>6 DEF TenantInv

\* A caller without a call carries nothing.
LEMMA NotACall == Ready \in Calls /\ CallSound(Ready) /\ Ready \notin PutCalls /\ Ready \notin DeleteCalls /\ Ready \notin UpdateCalls
  BY CallKinds DEF Calls, CallSound

-----------------------------------------------------------------------------

\* What a call carries to the write.
PutArguments(id, record, made, dropped, given, seen) ==
    /\ id \in Tenants /\ record \in Records /\ made \in SUBSET AllKeys /\ dropped \in SUBSET AllKeys
    /\ given \in SUBSET Statuses /\ seen \in Nat
\* What a call takes to its write is a put.
LEMMA PuttingFits ==
    ASSUME NEW id, NEW record, NEW made, NEW dropped, NEW given, NEW seen, PutArguments(id, record, made, dropped, given, seen),
           NEW r, r = Putting(id, record, made, dropped, given, seen)
    PROVE  /\ r \in PutCalls /\ r \in Calls /\ r.pc = "putting" /\ r.id = id /\ r.record = record /\ r.made = made
           /\ r.dropped = dropped /\ r.given = given /\ r.seen = seen /\ r.old = {}
           /\ r \notin DeleteCalls /\ r \notin UpdateCalls
  BY DEF PutArguments, Putting, PutCalls, DeleteCalls, UpdateCalls, Calls

\* A call is ready to put what follows from what is there.
PutReady(c, id, record, made, dropped, given, seen) ==
    /\ PutArguments(id, record, made, dropped, given, seen) /\ seen <= stamp[id]
    /\ record.id = id /\ OfTenant(made, id)
    /\ dropped \subseteq KeysNow(id) /\ record.keys = (KeysNow(id) \union made) \ dropped
    /\ seen = stamp[id] /\ given = {} => Known(id) /\ record.status = tenants[id].status
    /\ request' = [request EXCEPT ![c] = Putting(id, record, made, dropped, given, seen)]
    /\ UNCHANGED <<durable, tenants, by_digest, boot, tenantHistory>>
    /\ key_counter' \in Nat /\ key_counter <= key_counter'
    /\ \A k \in made : ~Taken(k) /\ k[2] = boot /\ k[3] < key_counter'

\* Read and about to be written at once, it follows from what is there.
LEMMA PuttingSound ==
    ASSUME TenantInv, NEW c \in Callers, NEW id, NEW record, NEW made, NEW dropped, NEW given, NEW seen,
           PutReady(c, id, record, made, dropped, given, seen)
    PROVE  TenantInv'
  <1> USE DEF PutReady
  <1> DEFINE r == Putting(id, record, made, dropped, given, seen)
  <1>1. r = Putting(id, record, made, dropped, given, seen) /\ request' = [request EXCEPT ![c] = r]
    OBVIOUS
  <1> HIDE DEF r
  <1>2. /\ r \in PutCalls /\ r \in Calls /\ r.pc = "putting" /\ r.id = id /\ r.record = record /\ r.made = made
        /\ r.dropped = dropped /\ r.given = given /\ r.seen = seen /\ r.old = {} /\ r \notin DeleteCalls /\ r \notin UpdateCalls
    BY <1>1, PuttingFits
  <1>4. KeysNow(id) \subseteq shown /\ OfTenant(KeysNow(id), id)
    BY DEF TenantInv, TenantTypes, KeysTaken, KeysNow, Known, OfTenant
  <1>5. PutSound(r)
    BY <1>2, <1>4 DEF PutSound, OfTenant
  <1>6. CallSound(r)
    BY <1>2, <1>5 DEF CallSound
  <1>7. \A k \in r.made : ~Taken(k) /\ k[2] = boot /\ k[3] < key_counter'
    BY <1>2
  <1> QED
    BY <1>1, <1>2, <1>6, <1>7, ReadKeepsInv

\* The next key of the counter was never taken.
LEMMA NewKeyFresh ==
    ASSUME TenantTypes, NEW id \in Tenants, TakeKey
    PROVE  /\ {NewKey(id)} \in SUBSET AllKeys /\ OfTenant({NewKey(id)}, id)
           /\ \A k \in {NewKey(id)} : ~Taken(k) /\ k[2] = boot /\ k[3] < key_counter'
           /\ key_counter' \in Nat /\ key_counter <= key_counter'
  BY DEF TenantTypes, TakeKey, NewKey, AllKeys, OfTenant, Taken

\* A record that is known is one.
LEMMA KnownRecord ==
    ASSUME TenantTypes, NEW id \in Tenants, Known(id)
    PROVE  /\ tenants[id] \in Records /\ tenants[id].id = id /\ tenants[id].keys = KeysNow(id) /\ tenants[id].status \in Statuses
           /\ KeysNow(id) \in SUBSET AllKeys
           /\ \A set \in SUBSET AllKeys : /\ [tenants[id] EXCEPT !.keys = set] \in Records
                                         /\ [tenants[id] EXCEPT !.keys = set].id = id
                                         /\ [tenants[id] EXCEPT !.keys = set].keys = set
                                         /\ [tenants[id] EXCEPT !.keys = set].status = tenants[id].status
           /\ \A status \in Statuses : /\ [tenants[id] EXCEPT !.status = status] \in Records
                                       /\ [tenants[id] EXCEPT !.status = status].id = id
                                       /\ [tenants[id] EXCEPT !.status = status].keys = KeysNow(id)
                                       /\ [tenants[id] EXCEPT !.status = status].status = status
  BY DEF TenantTypes, Known, Records, KeysNow

\* TenantService::create, which makes a key.
LEMMA CreateKeepsInv ==
    ASSUME TenantInv, NEW c \in Callers, NEW id \in Tenants, NEW status \in Statuses, NEW generate_key \in BOOLEAN,
           Create(c, id, status, generate_key)
    PROVE  TenantInv'
  <1> DEFINE made == IF generate_key THEN {NewKey(id)} ELSE {}
             record == [id |-> id, status |-> status, keys |-> made]
  <1>1. TenantTypes
    BY DEF TenantInv
  <1>2. /\ made \in SUBSET AllKeys /\ OfTenant(made, id)
        /\ \A k \in made : ~Taken(k) /\ k[2] = boot /\ k[3] < key_counter'
        /\ key_counter' \in Nat /\ key_counter <= key_counter'
    <2>1. CASE generate_key
      BY <2>1, <1>1, NewKeyFresh DEF Create
    <2>2. CASE ~generate_key
      BY <2>2, <1>1 DEF Create, OfTenant, TenantTypes
    <2> QED
      BY <2>1, <2>2
  <1>3. /\ request' = [request EXCEPT ![c] = Putting(id, record, made, {}, {status}, stamp[id])]
        /\ UNCHANGED <<durable, tenants, by_digest, boot, tenantHistory>>
        /\ KeysNow(id) = {}
    BY DEF Create, Start, Continue, KeysNow
  <1> HIDE DEF made
  <1>4. record \in Records /\ record.id = id /\ record.keys = made
    BY <1>2 DEF Records
  <1> HIDE DEF record
  <1>6. stamp[id] \in Nat /\ stamp[id] <= stamp[id]
    BY <1>1 DEF TenantTypes
  <1>7. record.keys = (KeysNow(id) \union made) \ {} /\ {} \subseteq KeysNow(id) /\ {} \in SUBSET AllKeys
        /\ {status} \in SUBSET Statuses /\ {status} # {}
    BY <1>3, <1>4
  <1>8. PutArguments(id, record, made, {}, {status}, stamp[id])
    BY <1>2, <1>4, <1>6, <1>7 DEF PutArguments
  <1>9. PutReady(c, id, record, made, {}, {status}, stamp[id])
    BY <1>2, <1>3, <1>4, <1>6, <1>7, <1>8 DEF PutReady
  <1> QED
    BY <1>9, PuttingSound

\* The administration's create refuses the tenants it knows and does the same otherwise.
LEMMA AdminCreateKeepsInv ==
    ASSUME TenantInv, NEW c \in Callers, NEW id \in Tenants, NEW named \in {{}} \union {{status} : status \in Statuses},
           NEW generate_key \in BOOLEAN, AdminCreate(c, id, named, generate_key)
    PROVE  TenantInv'
  <1> DEFINE status == IF named = {} THEN "active" ELSE CHOOSE status \in named : TRUE
  <1>1. status \in Statuses
    BY DEF Statuses
  <1>2. Create(c, id, status, generate_key)
    BY DEF AdminCreate
  <1> QED
    BY <1>1, <1>2, CreateKeepsInv

\* TenantService::add_key, which makes another.
LEMMA AddKeyKeepsInv ==
    ASSUME TenantInv, NEW c \in Callers, NEW id \in Tenants, AddKey(c, id)
    PROVE  TenantInv'
  <1> DEFINE made == {NewKey(id)}
             record == [tenants[id] EXCEPT !.keys = @ \union made]
  <1>1. TenantTypes
    BY DEF TenantInv
  <1>2. Known(id) /\ TakeKey /\ request' = [request EXCEPT ![c] = Putting(id, record, made, {}, {}, stamp[id])]
        /\ UNCHANGED <<durable, tenants, by_digest, boot, tenantHistory>>
    BY DEF AddKey, Start, Continue
  <1>3. /\ made \in SUBSET AllKeys /\ OfTenant(made, id)
        /\ \A k \in made : ~Taken(k) /\ k[2] = boot /\ k[3] < key_counter'
        /\ key_counter' \in Nat /\ key_counter <= key_counter'
    BY <1>1, <1>2, NewKeyFresh
  <1> HIDE DEF made
  <1>4. /\ tenants[id].keys = KeysNow(id) /\ KeysNow(id) \union made \in SUBSET AllKeys
        /\ record = [tenants[id] EXCEPT !.keys = KeysNow(id) \union made]
    BY <1>1, <1>2, <1>3, KnownRecord
  <1>5. record \in Records /\ record.id = id /\ record.keys = (KeysNow(id) \union made) \ {} /\ record.status = tenants[id].status
    BY <1>1, <1>2, <1>4, KnownRecord
  <1> HIDE DEF record
  <1>6. stamp[id] \in Nat /\ stamp[id] <= stamp[id] /\ {} \subseteq KeysNow(id) /\ {} \in SUBSET AllKeys /\ {} \in SUBSET Statuses
    BY <1>1 DEF TenantTypes
  <1>7. PutArguments(id, record, made, {}, {}, stamp[id])
    BY <1>3, <1>5, <1>6 DEF PutArguments
  <1>8. PutReady(c, id, record, made, {}, {}, stamp[id])
    BY <1>2, <1>3, <1>5, <1>6, <1>7 DEF PutReady
  <1> QED
    BY <1>8, PuttingSound

\* TenantService::revoke_key, which drops some.
LEMMA RevokeKeyKeepsInv ==
    ASSUME TenantInv, NEW c \in Callers, NEW id \in Tenants, NEW key, RevokeKey(c, id, key)
    PROVE  TenantInv'
  <1> DEFINE record == [tenants[id] EXCEPT !.keys = @ \ {key}]
  <1>1. TenantTypes
    BY DEF TenantInv
  <1>2. /\ Known(id) /\ key \in tenants[id].keys /\ request' = [request EXCEPT ![c] = Putting(id, record, {}, {key}, {}, stamp[id])]
        /\ UNCHANGED <<durable, tenants, by_digest, boot, tenantHistory>> /\ UNCHANGED key_counter
    BY DEF RevokeKey, Start, Continue
  <1>3. /\ tenants[id].keys = KeysNow(id) /\ KeysNow(id) \ {key} \in SUBSET AllKeys /\ key \in AllKeys /\ key \in KeysNow(id)
        /\ record = [tenants[id] EXCEPT !.keys = KeysNow(id) \ {key}]
    BY <1>1, <1>2, KnownRecord
  <1>4. /\ record \in Records /\ record.id = id /\ record.keys = (KeysNow(id) \union {}) \ {key} /\ record.status = tenants[id].status
    BY <1>1, <1>2, <1>3, KnownRecord
  <1> HIDE DEF record
  <1>5. stamp[id] \in Nat /\ stamp[id] <= stamp[id] /\ {key} \subseteq KeysNow(id) /\ {key} \in SUBSET AllKeys /\ {} \in SUBSET AllKeys
        /\ {} \in SUBSET Statuses /\ OfTenant({}, id) /\ key_counter' \in Nat /\ key_counter <= key_counter'
    BY <1>1, <1>2, <1>3 DEF TenantTypes, OfTenant
  <1>6. PutArguments(id, record, {}, {key}, {}, stamp[id])
    BY <1>4, <1>5 DEF PutArguments
  <1>7. \A k \in {} : ~Taken(k) /\ k[2] = boot /\ k[3] < key_counter'
    OBVIOUS
  <1>8. PutReady(c, id, record, {}, {key}, {}, stamp[id])
    BY <1>2, <1>4, <1>5, <1>6, <1>7 DEF PutReady
  <1> QED
    BY <1>8, PuttingSound

\* The first read of the administration's update.
LEMMA AdminUpdateKeepsInv ==
    ASSUME TenantInv, NEW c \in Callers, NEW id \in Tenants, NEW named \in {{}} \union {{status} : status \in Statuses},
           AdminUpdate(c, id, named)
    PROVE  TenantInv'
  <1> DEFINE r == [pc |-> "updating", id |-> id, status |-> NamedOrExisting(named, id), given |-> named, seen |-> stamp[id]]
  <1>1. TenantTypes
    BY DEF TenantInv
  <1>2. /\ Known(id) /\ request' = [request EXCEPT ![c] = r]
        /\ UNCHANGED <<durable, tenants, by_digest, boot, tenantHistory>> /\ UNCHANGED key_counter
    BY DEF AdminUpdate, Start, Continue
  <1>3. named \in SUBSET Statuses /\ NamedOrExisting(named, id) \in Statuses
        /\ (named = {} => NamedOrExisting(named, id) = tenants[id].status)
    <2>1. tenants[id].status \in Statuses
      BY <1>1, <1>2, KnownRecord
    <2> QED
      BY <2>1 DEF NamedOrExisting
  <1>4. stamp[id] \in Nat /\ key_counter' \in Nat /\ key_counter <= key_counter'
    BY <1>1, <1>2 DEF TenantTypes
  <1>5. r \in UpdateCalls /\ r \in Calls /\ r \notin PutCalls /\ r \notin DeleteCalls
    BY <1>3, <1>4 DEF UpdateCalls, Calls, PutCalls, DeleteCalls
  <1>6. CallSound(r)
    BY <1>2, <1>3, <1>4, <1>5 DEF CallSound, UpdateSound
  <1> HIDE DEF r
  <1> QED
    BY <1>2, <1>4, <1>5, <1>6, ReadKeepsInv

\* TenantService::update, which reads again.
LEMMA UpdateKeepsInv ==
    ASSUME TenantInv, NEW c \in Callers, Update(c)
    PROVE  TenantInv'
  <1> DEFINE r == request[c]
             record == [tenants[r.id] EXCEPT !.status = r.status]
  <1>1. TenantTypes /\ r \in Calls /\ r.pc = "updating" /\ key_counter \in Nat /\ key_counter' = key_counter
        /\ UNCHANGED <<durable, tenants, by_digest, boot, tenantHistory>>
    BY DEF TenantInv, TenantTypes, Update, Calls, Continue
  <1>2. r \in UpdateCalls
    BY <1>1, CallKinds
  <1>3. /\ r.id \in Tenants /\ r.status \in Statuses /\ r.given \in SUBSET Statuses /\ r.seen \in Nat
        /\ UpdateSound(r)
    BY <1>2 DEF UpdateCalls, TenantInv, CallsSound, CallSound
  <1>4. CASE Known(r.id)
    <2>1. request' = [request EXCEPT ![c] = Putting(r.id, record, {}, {}, r.given, r.seen)]
      BY <1>4 DEF Update, Continue
    <2>2. record \in Records /\ record.id = r.id /\ record.keys = (KeysNow(r.id) \union {}) \ {} /\ record.status = r.status
      BY <1>1, <1>3, <1>4, KnownRecord
    <2> HIDE DEF record, r
    <2>3. PutArguments(r.id, record, {}, {}, r.given, r.seen)
      BY <1>3, <2>2 DEF PutArguments
    <2>4. OfTenant({}, r.id) /\ {} \subseteq KeysNow(r.id) /\ r.seen <= stamp[r.id] /\ key_counter <= key_counter'
      BY <1>1, <1>3 DEF OfTenant, UpdateSound
    <2>5. r.seen = stamp[r.id] /\ r.given = {} => Known(r.id) /\ record.status = tenants[r.id].status
      BY <1>3, <2>2 DEF UpdateSound
    <2>6. \A k \in {} : ~Taken(k) /\ k[2] = boot /\ k[3] < key_counter'
      OBVIOUS
    <2>7. PutReady(c, r.id, record, {}, {}, r.given, r.seen)
      BY <1>1, <2>1, <2>2, <2>3, <2>4, <2>5, <2>6 DEF PutReady
    <2> QED
      BY <2>7, PuttingSound
  <1>5. CASE ~Known(r.id)
    <2>1. request' = [request EXCEPT ![c] = Ready] /\ key_counter <= key_counter' /\ key_counter' \in Nat
      BY <1>1, <1>5 DEF Update, Continue
    <2> QED
      BY <1>1, <2>1, NotACall, ReadKeepsInv
  <1> QED
    BY <1>4, <1>5

\* TenantService::delete, up to its write.
LEMMA DeleteKeepsInv ==
    ASSUME TenantInv, NEW c \in Callers, NEW id \in Tenants, Delete(c, id)
    PROVE  TenantInv'
  <1> DEFINE r == [pc |-> "deleting", id |-> id, seen |-> stamp[id], old |-> {}]
  <1>1. TenantTypes
    BY DEF TenantInv
  <1>2. /\ request' = [request EXCEPT ![c] = r]
        /\ UNCHANGED <<durable, tenants, by_digest, boot, tenantHistory>> /\ UNCHANGED key_counter
    BY DEF Delete, Start, Continue
  <1>3. stamp[id] \in Nat /\ key_counter' \in Nat /\ key_counter <= key_counter'
    BY <1>1, <1>2 DEF TenantTypes
  <1>4. r \in DeleteCalls /\ r \in Calls /\ r \notin PutCalls /\ r \notin UpdateCalls
    BY <1>3 DEF UpdateCalls, Calls, PutCalls, DeleteCalls
  <1>5. CallSound(r)
    BY <1>3, <1>4 DEF CallSound, DeleteSound, OfTenant
  <1> HIDE DEF r
  <1> QED
    BY <1>2, <1>3, <1>4, <1>5, ReadKeepsInv

\* The durable store reads the keys it is about to replace.
LEMMA ReadPreviousKeepsInv ==
    ASSUME TenantInv, NEW c \in Callers, ReadPrevious(c)
    PROVE  TenantInv'
  <1> DEFINE q == request[c]
             r == [q EXCEPT !.pc = IF @ = "putting" THEN "batch put" ELSE "batch delete", !.old = KeysNow(q.id)]
  <1>1. TenantTypes /\ q \in Calls /\ q.pc \in {"putting", "deleting"} /\ key_counter \in Nat /\ key_counter' = key_counter
        /\ UNCHANGED <<durable, tenants, by_digest, boot, tenantHistory>> /\ CallSound(q)
    BY DEF TenantInv, TenantTypes, ReadPrevious, Calls, CallsSound
  <1>2. request' = [request EXCEPT ![c] = r]
    BY <1>1 DEF ReadPrevious, KeysNow, TenantTypes
  <1>3. key_counter <= key_counter' /\ key_counter' \in Nat
    BY <1>1
  <1>4. CASE q.pc = "putting"
    <2>1. q \in PutCalls
      BY <1>1, <1>4, CallKinds
    <2>2. KeysNow(q.id) \in SUBSET AllKeys /\ OfTenant(KeysNow(q.id), q.id)
      BY <1>1, <2>1 DEF TenantTypes, KeysNow, Known, Records, OfTenant
    <2> HIDE DEF q
    <2>3. /\ r \in PutCalls /\ r.pc = "batch put" /\ r.id = q.id /\ r.record = q.record /\ r.made = q.made
          /\ r.dropped = q.dropped /\ r.given = q.given /\ r.seen = q.seen /\ r.old = KeysNow(q.id)
      BY <1>4, <2>1, <2>2 DEF PutCalls
    <2>4. r \in Calls /\ r \notin DeleteCalls /\ r \notin UpdateCalls
      BY <2>3, CallKinds DEF Calls
    <2> HIDE DEF r
    <2>5. PutSound(r)
      BY <1>1, <2>1, <2>2, <2>3 DEF PutSound, CallSound
    <2>6. CallSound(r)
      BY <2>3, <2>4, <2>5 DEF CallSound
    <2>7. r.made \subseteq Made(c)
      BY <2>1, <2>3 DEF Made, q
    <2> QED
      BY <1>1, <1>2, <1>3, <2>4, <2>6, <2>7, ReadKeepsInv
  <1>5. CASE q.pc = "deleting"
    <2>1. q \in DeleteCalls
      BY <1>1, <1>5, CallKinds
    <2>2. KeysNow(q.id) \in SUBSET AllKeys /\ OfTenant(KeysNow(q.id), q.id)
      BY <1>1, <2>1 DEF TenantTypes, KeysNow, Known, Records, OfTenant
    <2> HIDE DEF q
    <2>3. r \in DeleteCalls /\ r.pc = "batch delete" /\ r.id = q.id /\ r.seen = q.seen /\ r.old = KeysNow(q.id)
      BY <1>5, <2>1, <2>2 DEF DeleteCalls
    <2>4. r \in Calls /\ r \notin PutCalls /\ r \notin UpdateCalls
      BY <2>3, CallKinds DEF Calls
    <2> HIDE DEF r
    <2>5. CallSound(r)
      BY <1>1, <2>1, <2>2, <2>3, <2>4 DEF DeleteSound, CallSound
    <2> QED
      BY <1>1, <1>2, <1>3, <2>4, <2>5, ReadKeepsInv
  <1> QED
    BY <1>1, <1>4, <1>5

-----------------------------------------------------------------------------
(* The writes. *)

\* A write to a tenant makes what other calls read of it outdated, and leaves the other tenants as they are.
Writes(c, id, seen) ==
    /\ request' = [request EXCEPT ![c] = Ready]
    /\ UNCHANGED <<durable, key_counter, boot>>
    /\ Wrote(id, seen)
    /\ \A x \in Tenants : x # id => (Known(x)' <=> Known(x)) /\ (Known(x) => tenants'[x] = tenants[x])
    /\ shown \subseteq shown'

\* A write ends the caller's call, and what the others carry is still sound: for its tenant they are outdated.
LEMMA WriteKeepsCalls ==
    ASSUME TenantInv, NEW c \in Callers, NEW id \in Tenants, NEW seen, Writes(c, id, seen)
    PROVE  /\ CallsSound'
           /\ request' \in [Callers -> Calls] /\ request'[c] = Ready /\ \A d \in Callers : d # c => request'[d] = request[d]
           /\ stamp' \in [Tenants -> Nat] /\ raced \subseteq raced' /\ \A x \in raced' : x \in raced \/ x = id
           /\ id \notin raced' => seen = stamp[id]
           /\ \A x \in Tenants : x # id => KeysNow(x)' = KeysNow(x)
  <1>1. request \in [Callers -> Calls] /\ stamp \in [Tenants -> Nat]
    BY DEF TenantInv, TenantTypes, Calls
  <1>2. /\ request' \in [Callers -> Calls] /\ request'[c] = Ready /\ \A d \in Callers : d # c => request'[d] = request[d]
        /\ stamp' \in [Tenants -> Nat] /\ stamp'[id] = stamp[id] + 1 /\ \A x \in Tenants : x # id => stamp'[x] = stamp[x]
        /\ shown \subseteq shown'
    BY <1>1, NotACall DEF Writes, Wrote
  <1>3. raced \subseteq raced' /\ (\A x \in raced' : x \in raced \/ x = id) /\ (id \notin raced' => seen = stamp[id])
    BY DEF Writes, Wrote
  <1>4. \A x \in Tenants : x # id => (Known(x)' <=> Known(x)) /\ (Known(x) => tenants'[x] = tenants[x])
    BY DEF Writes
  <1>5. \A x \in Tenants : x # id => KeysNow(x)' = KeysNow(x)
    BY <1>4 DEF KeysNow
  <1>6. ASSUME NEW r \in PutCalls, PutSound(r) PROVE PutSound(r)'
    <2>1. r.id \in Tenants /\ r.seen \in Nat /\ stamp[r.id] \in Nat
      BY <1>1 DEF PutCalls
    <2>2. CASE r.id = id
      <3>a. r.seen <= stamp[id] /\ stamp'[id] = stamp[id] + 1
        BY <1>2, <1>6, <2>2 DEF PutSound
      <3>1. r.seen <= stamp'[r.id] /\ r.seen # stamp'[r.id]
        BY <2>1, <2>2, <3>a
      <3> QED
        BY <1>2, <1>6, <3>1 DEF PutSound
    <2>3. CASE r.id # id
      BY <1>2, <1>4, <1>5, <1>6, <2>1, <2>3 DEF PutSound
    <2> QED
      BY <2>2, <2>3
  <1>7. ASSUME NEW r \in DeleteCalls, DeleteSound(r) PROVE DeleteSound(r)'
    <2>1. r.id \in Tenants /\ r.seen \in Nat /\ stamp[r.id] \in Nat
      BY <1>1 DEF DeleteCalls
    <2>2. CASE r.id = id
      <3>a. r.seen <= stamp[id] /\ stamp'[id] = stamp[id] + 1
        BY <1>2, <1>7, <2>2 DEF DeleteSound
      <3>1. r.seen <= stamp'[r.id] /\ r.seen # stamp'[r.id]
        BY <2>1, <2>2, <3>a
      <3> QED
        BY <1>2, <1>7, <3>1 DEF DeleteSound
    <2>3. CASE r.id # id
      BY <1>2, <1>5, <1>7, <2>1, <2>3 DEF DeleteSound
    <2> QED
      BY <2>2, <2>3
  <1>8. ASSUME NEW r \in UpdateCalls, UpdateSound(r) PROVE UpdateSound(r)'
    <2>1. r.id \in Tenants /\ r.seen \in Nat /\ stamp[r.id] \in Nat
      BY <1>1 DEF UpdateCalls
    <2>2. CASE r.id = id
      <3>a. r.seen <= stamp[id] /\ stamp'[id] = stamp[id] + 1
        BY <1>2, <1>8, <2>2 DEF UpdateSound
      <3>1. r.seen <= stamp'[r.id] /\ r.seen # stamp'[r.id]
        BY <2>1, <2>2, <3>a
      <3> QED
        BY <1>2, <1>8, <3>1 DEF UpdateSound
    <2>3. CASE r.id # id
      BY <1>2, <1>4, <1>8, <2>1, <2>3 DEF UpdateSound
    <2> QED
      BY <2>2, <2>3
  <1>9. \A r : CallSound(r) => CallSound(r)'
    BY <1>6, <1>7, <1>8 DEF CallSound
  <1>10. CallsSound'
    <2>1. CallSound(Ready)'
      BY <1>9, NotACall
    <2> QED
      BY <1>2, <1>9, <2>1 DEF TenantInv, CallsSound
  <1> QED
    BY <1>2, <1>3, <1>5, <1>10

\* A put replaces the record and the keys that led to it.
LEMMA PutKeepsInv ==
    ASSUME TenantInv, NEW c \in Callers, Put(c)
    PROVE  TenantInv'
  <1>a. PICK r : r = request[c]
    OBVIOUS
  <1>b. PICK id : id = r.id
    OBVIOUS
  <1>c. PICK cleared : cleared = IF durable THEN r.old ELSE Owned(id)
    OBVIOUS
  <1>1. /\ r \in Calls /\ r.pc = (IF durable THEN "batch put" ELSE "putting")
        /\ request' = [request EXCEPT ![c] = Ready] /\ UNCHANGED <<durable, key_counter, boot>>
        /\ tenants' = Over(tenants, [x \in {id} |-> r.record])
        /\ by_digest' = Over(Drop(by_digest, cleared), Assign(r.record.keys, id))
        /\ Wrote(id, r.seen)
        /\ wanted' = [wanted EXCEPT ![id] = IF r.given = {} THEN @ ELSE r.record.status]
        /\ shown' = shown \union r.made /\ gone' = gone \union r.dropped
    BY <1>a, <1>b, <1>c DEF TenantInv, TenantTypes, Calls, Put, IndexPut
  <1>2. r \in PutCalls /\ Made(c) = r.made
    BY <1>1, <1>a, CallKinds DEF Made
  <1>3. /\ id \in Tenants /\ r.record \in Records /\ r.made \subseteq AllKeys /\ r.dropped \subseteq AllKeys
        /\ r.seen \in Nat /\ r.record.status \in Statuses /\ r.record.keys \subseteq AllKeys /\ r.old \subseteq AllKeys
    BY <1>2, <1>b DEF PutCalls, Records
  <1>4. PutSound(r)
    BY <1>2, <1>a DEF TenantInv, CallsSound, CallSound
  <1>5. TenantTypes /\ KeysTaken /\ IndexSound /\ ShownSound /\ StatusKept
    BY DEF TenantInv
  <1>6. /\ DOMAIN tenants' = DOMAIN tenants \union {id} /\ tenants'[id] = r.record
        /\ \A x \in DOMAIN tenants : x # id => tenants'[x] = tenants[x]
    <2> DEFINE one == [x \in {id} |-> r.record]
    <2>1. DOMAIN one = {id} /\ one[id] = r.record /\ tenants' = Over(tenants, one)
      BY <1>1
    <2> HIDE DEF one
    <2> QED
      <3>1. /\ DOMAIN Over(tenants, one) = DOMAIN tenants \union DOMAIN one
            /\ \A x \in DOMAIN one : Over(tenants, one)[x] = one[x]
            /\ \A x \in DOMAIN tenants : x \notin DOMAIN one => Over(tenants, one)[x] = tenants[x]
        BY OverAt
      <3> QED
        BY <2>1, <3>1
  <1>7. /\ DOMAIN by_digest' = (DOMAIN by_digest \ cleared) \union r.record.keys
        /\ \A k \in r.record.keys : by_digest'[k] = id
        /\ \A k \in DOMAIN by_digest \ cleared : k \notin r.record.keys => by_digest'[k] = by_digest[k]
    <2> DEFINE others == Drop(by_digest, cleared)
               mine == Assign(r.record.keys, id)
    <2>1. DOMAIN others = DOMAIN by_digest \ cleared /\ \A k \in DOMAIN others : others[k] = by_digest[k]
      BY DEF Drop, Restrict
    <2>2. DOMAIN mine = r.record.keys /\ \A k \in r.record.keys : mine[k] = id
      BY AssignAt
    <2>3. by_digest' = Over(others, mine)
      BY <1>1
    <2> HIDE DEF others, mine
    <2> QED
      <3>1. /\ DOMAIN Over(others, mine) = DOMAIN others \union DOMAIN mine
            /\ \A x \in DOMAIN mine : Over(others, mine)[x] = mine[x]
            /\ \A x \in DOMAIN others : x \notin DOMAIN mine => Over(others, mine)[x] = others[x]
        BY OverAt
      <3> QED
        BY <2>1, <2>2, <2>3, <3>1
  <1>8. \A k \in cleared : k[1] = id
    BY <1>4, <1>5, <1>b, <1>c DEF Owned, TenantTypes, PutSound, OfTenant
  <1>9. /\ KeysNow(id)' = r.record.keys /\ Known(id)'
        /\ \A x \in Tenants : x # id => (Known(x)' <=> Known(x)) /\ (Known(x) => tenants'[x] = tenants[x])
    <2>1. Known(id)' /\ \A x \in Tenants : x # id => (Known(x)' <=> Known(x)) /\ (Known(x) => tenants'[x] = tenants[x])
      BY <1>3, <1>6 DEF Known
    <2> QED
      BY <1>6, <2>1 DEF KeysNow
  <1>10. Writes(c, id, r.seen)
    BY <1>1, <1>9 DEF Writes
  <1>11. /\ CallsSound'
         /\ request' \in [Callers -> Calls] /\ request'[c] = Ready /\ \A d \in Callers : d # c => request'[d] = request[d]
         /\ stamp' \in [Tenants -> Nat] /\ raced \subseteq raced' /\ \A x \in raced' : x \in raced \/ x = id
         /\ id \notin raced' => r.seen = stamp[id]
         /\ \A x \in Tenants : x # id => KeysNow(x)' = KeysNow(x)
    BY <1>3, <1>10, WriteKeepsCalls
  <1>12. /\ \A k \in r.made : k[1] = id /\ k \notin shown
         /\ \A k \in r.dropped : k[1] = id /\ k \in shown
         /\ \A k \in r.record.keys : k[1] = id /\ k \in shown'
    BY <1>1, <1>2, <1>4, <1>5, <1>b DEF PutSound, OfTenant, KeysTaken
  <1>13. id \notin raced' =>
            /\ id \notin raced /\ r.record.keys = (KeysNow(id) \union r.made) \ r.dropped
            /\ r.given = {} => Known(id) /\ r.record.status = tenants[id].status
            /\ durable => r.old = KeysNow(id)
    BY <1>1, <1>4, <1>11, <1>b DEF PutSound
  <1>14. TenantTypes'
    <2>1. wanted' \in [Tenants -> Statuses]
      BY <1>1, <1>3, <1>5 DEF TenantTypes
    <2>2. \A x \in DOMAIN tenants' : tenants'[x] \in Records /\ tenants'[x].id = x /\ OfTenant(tenants'[x].keys, x)
      <3>1. r.record.id = id /\ OfTenant(r.record.keys, id) /\ r.record \in Records
        BY <1>3, <1>4, <1>b DEF PutSound
      <3>2. \A x \in DOMAIN tenants : tenants[x] \in Records /\ tenants[x].id = x /\ OfTenant(tenants[x].keys, x)
        BY <1>5 DEF TenantTypes
      <3>3. ASSUME NEW x \in DOMAIN tenants' PROVE tenants'[x] \in Records /\ tenants'[x].id = x /\ OfTenant(tenants'[x].keys, x)
        <4>1. CASE x = id
          BY <1>6, <3>1, <4>1
        <4>2. CASE x # id
          BY <1>6, <3>2, <4>2
        <4> QED
          BY <4>1, <4>2
      <3> QED
        BY <3>3
    <2>3. DOMAIN by_digest' \subseteq AllKeys /\ \A k \in DOMAIN by_digest' : by_digest'[k] = k[1]
      BY <1>3, <1>5, <1>7, <1>12 DEF TenantTypes
    <2>4. shown' \subseteq AllKeys /\ gone' \subseteq shown' /\ DOMAIN tenants' \subseteq Tenants
      BY <1>1, <1>3, <1>5, <1>6, <1>12 DEF TenantTypes
    <2> QED
      BY <1>1, <1>5, <1>11, <2>1, <2>2, <2>3, <2>4 DEF TenantTypes, Calls
  <1>15. KeysTaken'
    <2>1. \A k : Taken(k) => Taken(k)'
      BY <1>1 DEF Taken
    <2>2. Made(c)' = {} /\ \A d \in Callers : d # c => Made(d)' = Made(d)
      BY <1>11, NotACall DEF Made
    <2>3. \A k \in shown' : Taken(k)'
      BY <1>1, <1>2, <1>5, <2>1 DEF KeysTaken
    <2>4. \A d \in Callers : d # c => Made(d) \cap r.made = {}
      BY <1>2, <1>5 DEF KeysTaken
    <2>5. \A d \in Callers : \A k \in Made(d)' : Taken(k)' /\ k \notin shown'
      BY <1>1, <1>5, <2>1, <2>2, <2>4 DEF KeysTaken
    <2>6. \A d, e \in Callers : d # e => Made(d)' \cap Made(e)' = {}
      BY <1>5, <2>2 DEF KeysTaken
    <2>7. \A x \in DOMAIN tenants' : tenants'[x].keys \subseteq shown'
      BY <1>1, <1>5, <1>6, <1>12 DEF KeysTaken
    <2> QED
      BY <2>3, <2>5, <2>6, <2>7 DEF KeysTaken
  <1>16. IndexSound'
    <2>1. SUFFICES ASSUME NEW x \in Tenants
                   PROVE  /\ KeysNow(x)' \subseteq DOMAIN by_digest'
                          /\ ~durable' \/ x \notin raced' => \A k \in DOMAIN by_digest' : k[1] = x => k \in KeysNow(x)'
      BY DEF IndexSound
    <2>2. CASE x # id
      <3>1. \A k : k[1] = x => k \notin cleared /\ k \notin r.record.keys
        BY <1>8, <1>12, <2>2
      <3>2. OfTenant(KeysNow(x), x)
        BY <1>5 DEF TenantTypes, KeysNow, Known, OfTenant
      <3>3. KeysNow(x)' = KeysNow(x) /\ (x \notin raced' => x \notin raced) /\ durable' = durable
        BY <1>1, <1>11, <2>2
      <3>4. KeysNow(x)' \subseteq DOMAIN by_digest'
        BY <1>5, <1>7, <3>1, <3>2, <3>3 DEF IndexSound, OfTenant
      <3>5. ~durable' \/ x \notin raced' => \A k \in DOMAIN by_digest' : k[1] = x => k \in KeysNow(x)'
        BY <1>5, <1>7, <3>1, <3>3 DEF IndexSound
      <3> QED
        BY <3>4, <3>5
    <2>3. CASE x = id
      <3>1. KeysNow(x)' = r.record.keys /\ durable' = durable
        BY <1>1, <1>9, <2>3
      <3>2. ASSUME ~durable \/ x \notin raced', NEW k \in DOMAIN by_digest \ cleared, k[1] = x PROVE FALSE
        <4>1. CASE durable
          BY <1>5, <1>13, <1>c, <2>3, <3>2, <4>1 DEF IndexSound
        <4>2. CASE ~durable
          BY <1>5, <1>c, <2>3, <3>2, <4>2 DEF Owned, TenantTypes
        <4> QED
          BY <4>1, <4>2
      <3> QED
        BY <1>7, <3>1, <3>2
    <2> QED
      BY <2>2, <2>3
  <1>17. ShownSound'
    <2>1. SUFFICES ASSUME NEW x \in Tenants, x \notin raced', NEW k \in shown', k[1] = x
                   PROVE  k \in KeysNow(x)' <=> k \notin gone'
      BY DEF ShownSound
    <2>2. CASE x # id
      <3>1. k \in shown /\ x \notin raced /\ KeysNow(x)' = KeysNow(x)
        BY <1>1, <1>11, <1>12, <2>1, <2>2
      <3>2. k \in KeysNow(x) <=> k \notin gone
        BY <1>5, <2>1, <3>1 DEF ShownSound
      <3> QED
        BY <1>1, <1>12, <2>1, <2>2, <3>1, <3>2
    <2>3. CASE x = id
      <3>1. KeysNow(x)' = (KeysNow(id) \union r.made) \ r.dropped /\ id \notin raced
        BY <1>9, <1>13, <2>1, <2>3
      <3>2. CASE k \in r.made
        BY <1>1, <1>5, <1>12, <3>1, <3>2 DEF TenantTypes
      <3>3. CASE k \notin r.made
        <4>1. k \in shown /\ k[1] = id
          BY <1>1, <2>1, <2>3, <3>3
        <4>2. k \in KeysNow(id) <=> k \notin gone
          BY <1>3, <1>5, <3>1, <4>1 DEF ShownSound
        <4> QED
          BY <1>1, <3>1, <3>3, <4>2
      <3> QED
        BY <3>2, <3>3
    <2> QED
      BY <2>2, <2>3
  <1>18. StatusKept'
    <2>1. SUFFICES ASSUME NEW x \in DOMAIN tenants', x \notin raced' PROVE tenants'[x].status = wanted'[x]
      BY DEF StatusKept
    <2>2. x \in Tenants /\ wanted \in [Tenants -> Statuses]
      BY <1>3, <1>5, <1>6 DEF TenantTypes
    <2>3. CASE x # id
      BY <1>1, <1>5, <1>6, <1>11, <2>1, <2>2, <2>3 DEF StatusKept
    <2>4. CASE x = id /\ r.given = {}
      BY <1>1, <1>5, <1>6, <1>13, <2>1, <2>2, <2>4 DEF StatusKept, Known
    <2>5. CASE x = id /\ r.given # {}
      BY <1>1, <1>6, <2>2, <2>5
    <2> QED
      BY <2>3, <2>4, <2>5
  <1> QED
    BY <1>11, <1>14, <1>15, <1>16, <1>17, <1>18 DEF TenantInv

\* A delete takes the record and its keys.
LEMMA RemoveTenantKeepsInv ==
    ASSUME TenantInv, NEW c \in Callers, RemoveTenant(c)
    PROVE  TenantInv'
  <1>a. PICK r : r = request[c]
    OBVIOUS
  <1>b. PICK id : id = r.id
    OBVIOUS
  <1>c. PICK cleared : cleared = IF durable THEN r.old ELSE Owned(id)
    OBVIOUS
  <1>1. /\ r \in Calls /\ r.pc = (IF durable THEN "batch delete" ELSE "deleting")
        /\ request' = [request EXCEPT ![c] = Ready] /\ UNCHANGED <<durable, key_counter, boot, wanted, shown>>
        /\ tenants' = Drop(tenants, {id}) /\ by_digest' = Drop(by_digest, cleared)
        /\ Wrote(id, r.seen)
        /\ gone' = gone \union {k \in shown : k[1] = id}
    BY <1>a, <1>b, <1>c DEF TenantInv, TenantTypes, Calls, RemoveTenant, IndexDelete
  <1>2. r \in DeleteCalls
    BY <1>1, CallKinds
  <1>3. id \in Tenants /\ r.seen \in Nat /\ r.old \subseteq AllKeys
    BY <1>2, <1>b DEF DeleteCalls
  <1>4. DeleteSound(r)
    BY <1>2, <1>a DEF TenantInv, CallsSound, CallSound
  <1>5. TenantTypes /\ KeysTaken /\ IndexSound /\ ShownSound /\ StatusKept
    BY DEF TenantInv
  <1>6. DOMAIN tenants' = DOMAIN tenants \ {id} /\ \A x \in DOMAIN tenants \ {id} : tenants'[x] = tenants[x]
    BY <1>1 DEF Drop, Restrict
  <1>7. DOMAIN by_digest' = DOMAIN by_digest \ cleared /\ \A k \in DOMAIN by_digest' : by_digest'[k] = by_digest[k]
    BY <1>1 DEF Drop, Restrict
  <1>8. \A k \in cleared : k[1] = id
    BY <1>4, <1>5, <1>b, <1>c DEF Owned, TenantTypes, DeleteSound, OfTenant
  <1>9. /\ KeysNow(id)' = {} /\ ~Known(id)'
        /\ \A x \in Tenants : x # id => (Known(x)' <=> Known(x)) /\ (Known(x) => tenants'[x] = tenants[x])
    <2>1. ~Known(id)' /\ \A x \in Tenants : x # id => (Known(x)' <=> Known(x)) /\ (Known(x) => tenants'[x] = tenants[x])
      BY <1>3, <1>6 DEF Known
    <2> QED
      BY <2>1 DEF KeysNow
  <1>10. Writes(c, id, r.seen)
    BY <1>1, <1>9 DEF Writes
  <1>11. /\ CallsSound'
         /\ request' \in [Callers -> Calls] /\ request'[c] = Ready /\ \A d \in Callers : d # c => request'[d] = request[d]
         /\ stamp' \in [Tenants -> Nat] /\ raced \subseteq raced' /\ \A x \in raced' : x \in raced \/ x = id
         /\ id \notin raced' => r.seen = stamp[id]
         /\ \A x \in Tenants : x # id => KeysNow(x)' = KeysNow(x)
    BY <1>3, <1>10, WriteKeepsCalls
  <1>12. id \notin raced' /\ durable => id \notin raced /\ r.old = KeysNow(id)
    BY <1>1, <1>4, <1>11, <1>b DEF DeleteSound
  <1>13. TenantTypes'
    <2>1. DOMAIN tenants' \subseteq Tenants /\ \A x \in DOMAIN tenants' : tenants'[x] \in Records /\ tenants'[x].id = x /\ OfTenant(tenants'[x].keys, x)
      BY <1>5, <1>6 DEF TenantTypes
    <2>2. DOMAIN by_digest' \subseteq AllKeys /\ \A k \in DOMAIN by_digest' : by_digest'[k] = k[1]
      BY <1>5, <1>7 DEF TenantTypes
    <2>3. shown' \subseteq AllKeys /\ gone' \subseteq shown'
      BY <1>1, <1>5 DEF TenantTypes
    <2> QED
      BY <1>1, <1>5, <1>11, <2>1, <2>2, <2>3 DEF TenantTypes, Calls
  <1>14. KeysTaken'
    <2>1. \A k : Taken(k) => Taken(k)'
      BY <1>1 DEF Taken
    <2>2. Made(c)' = {} /\ \A d \in Callers : d # c => Made(d)' = Made(d)
      BY <1>11, NotACall DEF Made
    <2>3. \A k \in shown' : Taken(k)'
      BY <1>1, <1>5, <2>1 DEF KeysTaken
    <2>5. \A d \in Callers : \A k \in Made(d)' : Taken(k)' /\ k \notin shown'
      BY <1>1, <1>5, <2>1, <2>2 DEF KeysTaken
    <2>6. \A d, e \in Callers : d # e => Made(d)' \cap Made(e)' = {}
      BY <1>5, <2>2 DEF KeysTaken
    <2>7. \A x \in DOMAIN tenants' : tenants'[x].keys \subseteq shown'
      BY <1>1, <1>5, <1>6 DEF KeysTaken
    <2> QED
      BY <2>3, <2>5, <2>6, <2>7 DEF KeysTaken
  <1>15. IndexSound'
    <2>1. SUFFICES ASSUME NEW x \in Tenants
                   PROVE  /\ KeysNow(x)' \subseteq DOMAIN by_digest'
                          /\ ~durable' \/ x \notin raced' => \A k \in DOMAIN by_digest' : k[1] = x => k \in KeysNow(x)'
      BY DEF IndexSound
    <2>2. CASE x # id
      <3>1. \A k : k[1] = x => k \notin cleared
        BY <1>8, <2>2
      <3>2. OfTenant(KeysNow(x), x)
        BY <1>5 DEF TenantTypes, KeysNow, Known, OfTenant
      <3>3. KeysNow(x)' = KeysNow(x) /\ (x \notin raced' => x \notin raced) /\ durable' = durable
        BY <1>1, <1>11, <2>2
      <3>4. KeysNow(x)' \subseteq DOMAIN by_digest'
        BY <1>5, <1>7, <3>1, <3>2, <3>3 DEF IndexSound, OfTenant
      <3>5. ~durable' \/ x \notin raced' => \A k \in DOMAIN by_digest' : k[1] = x => k \in KeysNow(x)'
        BY <1>5, <1>7, <3>1, <3>3 DEF IndexSound
      <3> QED
        BY <3>4, <3>5
    <2>3. CASE x = id
      <3>1. KeysNow(x)' = {} /\ durable' = durable
        BY <1>1, <1>9, <2>3
      <3>2. ASSUME ~durable \/ x \notin raced', NEW k \in DOMAIN by_digest \ cleared, k[1] = x PROVE FALSE
        <4>1. CASE durable
          BY <1>5, <1>12, <1>c, <2>3, <3>2, <4>1 DEF IndexSound
        <4>2. CASE ~durable
          BY <1>5, <1>c, <2>3, <3>2, <4>2 DEF Owned, TenantTypes
        <4> QED
          BY <4>1, <4>2
      <3> QED
        BY <1>7, <3>1, <3>2
    <2> QED
      BY <2>2, <2>3
  <1>16. ShownSound'
    <2>1. SUFFICES ASSUME NEW x \in Tenants, x \notin raced', NEW k \in shown', k[1] = x
                   PROVE  k \in KeysNow(x)' <=> k \notin gone'
      BY DEF ShownSound
    <2>2. CASE x # id
      <3>1. x \notin raced /\ k \in shown /\ KeysNow(x)' = KeysNow(x) /\ (k \in gone' <=> k \in gone)
        BY <1>1, <1>11, <2>1, <2>2
      <3> QED
        BY <1>5, <2>1, <3>1 DEF ShownSound
    <2>3. CASE x = id
      BY <1>1, <1>9, <2>1, <2>3
    <2> QED
      BY <2>2, <2>3
  <1>17. StatusKept'
    <2>1. SUFFICES ASSUME NEW x \in DOMAIN tenants', x \notin raced' PROVE tenants'[x].status = wanted'[x]
      BY DEF StatusKept
    <2> QED
      BY <1>1, <1>5, <1>6, <1>11, <2>1 DEF StatusKept
  <1> QED
    BY <1>11, <1>13, <1>14, <1>15, <1>16, <1>17 DEF TenantInv

\* A new process: what it finds is what was written, and its keys are told from the older ones.
LEMMA TenantRestartKeepsInv ==
    ASSUME TenantInv, TenantRestart
    PROVE  TenantInv'
  <1>1. /\ boot' = boot + 1 /\ key_counter' = 1 /\ request' = [c \in Callers |-> Ready]
        /\ UNCHANGED <<durable, stamp, wanted, raced, shown>>
        /\ durable => UNCHANGED <<tenants, by_digest, gone>>
        /\ ~durable => tenants' = <<>> /\ by_digest' = <<>> /\ gone' = shown
        /\ TenantTypes /\ KeysTaken /\ IndexSound /\ ShownSound /\ StatusKept
    BY DEF TenantInv, TenantRestart
  <1>2. DOMAIN <<>> = {}
    OBVIOUS
  <1>3. ~durable => \A x \in Tenants : ~Known(x)' /\ KeysNow(x)' = {}
    BY <1>1, <1>2 DEF Known, KeysNow
  <1>4. durable => \A x \in Tenants : KeysNow(x)' = KeysNow(x)
    BY <1>1 DEF Known, KeysNow
  <1>5. request' \in [Callers -> Calls] /\ \A c \in Callers : request'[c] = Ready
    BY <1>1, NotACall
  <1>6. TenantTypes'
    <2>1. CASE durable
      BY <1>1, <1>5, <2>1 DEF TenantTypes, Calls, OfTenant
    <2>2. CASE ~durable
      BY <1>1, <1>2, <1>5, <2>2 DEF TenantTypes, Calls
    <2> QED
      BY <2>1, <2>2
  <1>7. KeysTaken'
    <2>1. \A k \in shown : Taken(k)'
      <3>1. \A k \in shown : k[2] \in Nat /\ boot \in Nat /\ Taken(k)
        BY <1>1 DEF TenantTypes, AllKeys, KeysTaken
      <3> QED
        BY <1>1, <3>1 DEF Taken
    <2>2. \A c \in Callers : Made(c)' = {}
      BY <1>5, NotACall DEF Made
    <2>3. \A id \in DOMAIN tenants' : tenants'[id].keys \subseteq shown'
      BY <1>1, <1>2 DEF KeysTaken
    <2> QED
      BY <1>1, <2>1, <2>2, <2>3 DEF KeysTaken
  <1>8. CallsSound'
    <2>1. CallSound(Ready)'
      BY NotACall DEF CallSound
    <2> QED
      BY <1>5, <2>1 DEF CallsSound
  <1>9. IndexSound' /\ ShownSound' /\ StatusKept'
    <2>1. CASE durable
      BY <1>1, <1>4, <2>1 DEF IndexSound, ShownSound, StatusKept
    <2>2. CASE ~durable
      BY <1>1, <1>2, <1>3, <2>2 DEF IndexSound, ShownSound, StatusKept
    <2> QED
      BY <2>1, <2>2
  <1> QED
    BY <1>6, <1>7, <1>8, <1>9 DEF TenantInv

\* The invariant holds of an empty registry.
LEMMA TenantInitInv ==
    ASSUME TenantInit
    PROVE  TenantInv
  <1>1. DOMAIN <<>> = {} /\ tenants = <<>> /\ by_digest = <<>> /\ shown = {} /\ gone = {}
    BY DEF TenantInit
  <1>2. request \in [Callers -> Calls] /\ \A c \in Callers : request[c] = Ready
    BY NotACall DEF TenantInit
  <1>3. \A id \in Tenants : KeysNow(id) = {}
    BY <1>1 DEF KeysNow, Known
  <1>4. TenantTypes
    BY <1>1, <1>2 DEF TenantInit, TenantTypes, Calls, Statuses
  <1>5. KeysTaken
    BY <1>1, <1>2, NotACall DEF KeysTaken, Made
  <1>6. CallsSound
    BY <1>2, NotACall DEF CallsSound
  <1> QED
    BY <1>1, <1>3, <1>4, <1>5, <1>6 DEF TenantInv, IndexSound, ShownSound, StatusKept

\* Every step of the registry keeps it.
LEMMA TenantStepInv ==
    ASSUME TenantInv, TenantNext
    PROVE  TenantInv'
  <1>1. CASE \E c \in Callers, id \in Tenants, named \in {{}} \union {{status} : status \in Statuses} : AdminUpdate(c, id, named)
    BY <1>1, AdminUpdateKeepsInv
  <1>2. CASE \E c \in Callers, id \in Tenants, named \in {{}} \union {{status} : status \in Statuses}, generate_key \in BOOLEAN :
                AdminCreate(c, id, named, generate_key)
    BY <1>2, AdminCreateKeepsInv
  <1>3. CASE \E c \in Callers, id \in Tenants : AddKey(c, id)
    BY <1>3, AddKeyKeepsInv
  <1>4. CASE \E c \in Callers, id \in Tenants : Delete(c, id)
    BY <1>4, DeleteKeepsInv
  <1>5. CASE \E c \in Callers, id \in Tenants, key \in Keys : RevokeKey(c, id, key)
    BY <1>5, RevokeKeyKeepsInv
  <1>6. CASE \E c \in Callers : Update(c)
    BY <1>6, UpdateKeepsInv
  <1>7. CASE \E c \in Callers : ReadPrevious(c)
    BY <1>7, ReadPreviousKeepsInv
  <1>8. CASE \E c \in Callers : Put(c)
    BY <1>8, PutKeepsInv
  <1>9. CASE \E c \in Callers : RemoveTenant(c)
    BY <1>9, RemoveTenantKeepsInv
  <1>10. CASE TenantRestart
    BY <1>10, TenantRestartKeepsInv
  <1> QED
    BY <1>1, <1>2, <1>3, <1>4, <1>5, <1>6, <1>7, <1>8, <1>9, <1>10 DEF TenantNext

\* It speaks of the registry only.
LEMMA TenantStutterInv ==
    ASSUME TenantInv, UNCHANGED tenantVars
    PROVE  TenantInv'
  <1>1. UNCHANGED <<durable, tenants, by_digest, key_counter, boot, request, stamp, wanted, raced, shown, gone>>
    BY DEF tenantVars, registryVars, tenantHistory
  <1>2. \A r : CallSound(r) => CallSound(r)'
    BY <1>1 DEF CallSound, PutSound, DeleteSound, UpdateSound, KeysNow, Known
  <1>3. CallsSound'
    BY <1>1, <1>2 DEF TenantInv, CallsSound
  <1>4. IndexSound' /\ ShownSound' /\ StatusKept' /\ TenantTypes'
    BY <1>1 DEF TenantInv, IndexSound, ShownSound, StatusKept, TenantTypes, KeysNow, Known, OfTenant
  <1>5. KeysTaken'
    BY <1>1 DEF TenantInv, KeysTaken, Made, Taken
  <1> QED
    BY <1>3, <1>4, <1>5 DEF TenantInv

\* The invariant says what the registry promises.
LEMMA TenantInvAgrees ==
    ASSUME TenantInv
    PROVE  RegistryAgrees
  <1>1. TenantTypes /\ KeysTaken /\ IndexSound /\ ShownSound /\ StatusKept
    BY DEF TenantInv
  <1>2. ListedKeysResolve
    <2>1. SUFFICES ASSUME NEW id \in DOMAIN tenants, NEW k \in tenants[id].keys PROVE k \in DOMAIN by_digest /\ by_digest[k] = id
      BY DEF ListedKeysResolve
    <2>2. k \in KeysNow(id) /\ id \in Tenants /\ k[1] = id
      BY <1>1, <2>1 DEF KeysNow, Known, TenantTypes, OfTenant
    <2> QED
      BY <1>1, <2>2 DEF IndexSound, TenantTypes
  <1>3. NoStrayKeys
    <2>1. SUFFICES ASSUME NEW k \in DOMAIN by_digest
                   PROVE  /\ by_digest[k] = k[1]
                          /\ ~durable \/ k[1] \notin raced => Known(k[1]) /\ k \in tenants[k[1]].keys
      BY DEF NoStrayKeys
    <2>2. by_digest[k] = k[1] /\ k[1] \in Tenants
      BY <1>1 DEF TenantTypes, AllKeys
    <2>3. ~durable \/ k[1] \notin raced => k \in KeysNow(k[1])
      BY <1>1, <2>2 DEF IndexSound
    <2> QED
      BY <2>2, <2>3 DEF KeysNow
  <1>4. ShownUntilGone
    <2>1. SUFFICES ASSUME NEW k \in shown, k[1] \notin raced PROVE Resolve(k) # {} <=> k \notin gone
      BY DEF ShownUntilGone
    <2>2. k[1] \in Tenants
      BY <1>1 DEF TenantTypes, AllKeys
    <2>3. k \in KeysNow(k[1]) <=> k \notin gone
      BY <1>1, <2>1, <2>2 DEF ShownSound
    <2>4. k \in KeysNow(k[1]) => k \in DOMAIN by_digest /\ by_digest[k] = k[1] /\ Known(k[1])
      BY <1>1, <2>2 DEF IndexSound, TenantTypes, KeysNow
    <2>5. k \in DOMAIN by_digest => k \in KeysNow(k[1])
      BY <1>1, <2>1, <2>2 DEF IndexSound
    <2> QED
      BY <2>3, <2>4, <2>5 DEF Resolve
  <1> QED
    BY <1>1, <1>2, <1>3, <1>4 DEF RegistryAgrees

\* A tenant keeps the status it was given, a key opens the tenant it was made for and no other, and it works from
\* the answer that shows it to the answer that revokes it, but for the tenants two calls worked on at a time.
THEOREM TenantRegistrySafe == TenantSpec => []RegistryAgrees
  <1>1. TenantInit => TenantInv
    BY TenantInitInv
  <1>2. TenantInv /\ [TenantNext]_tenantVars => TenantInv'
    BY TenantStepInv, TenantStutterInv
  <1>3. TenantInv => RegistryAgrees
    BY TenantInvAgrees
  <1> QED
    BY <1>1, <1>2, <1>3, PTL DEF TenantSpec

\* The key decides alone: without other headers, the record it resolves to admits it or nobody does.
LEMMA KeyAlone ==
    ASSUME NEW found
    PROVE  LET result == Authenticate(Config("enforced", None, TRUE, None, FALSE, None), WithKey, found)
           IN  /\ found = {} => ~result.ok
               /\ \A record : found = {record} => (result.ok <=> record.status = "active") /\ (result.ok => result.tenant = record.id)
  <1> DEFINE config == Config("enforced", None, TRUE, None, FALSE, None)
             result == Authenticate(config, WithKey, found)
  <1>1. config.mode = "enforced" /\ config.registry /\ config.api_key = None
    BY DEF Config
  <1>2. WithKey.tenant = None /\ WithKey.user = None /\ WithKey.key = "a key"
    BY DEF WithKey
  <1>3. ~Filled(None) /\ Filled("a key")
    BY DEF Filled, None
  <1> HIDE DEF config
  <1>4. result = IF found # {} THEN ByRegistry(WithKey, CHOOSE record \in found : TRUE) ELSE Refused("unauthorized")
    <2>1. Registered(config, WithKey, found) <=> found # {}
      BY <1>1, <1>2, <1>3 DEF Registered
    <2>2. ByHeaders(config, WithKey) = Refused("unauthorized")
      BY <1>1, <1>2, <1>3 DEF ByHeaders
    <2>3. result = IF Registered(config, WithKey, found) THEN ByRegistry(WithKey, CHOOSE record \in found : TRUE) ELSE ByHeaders(config, WithKey)
      BY <1>1 DEF Authenticate
    <2> QED
      BY <2>1, <2>2, <2>3
  <1>5. \A record : ByRegistry(WithKey, record) = IF record.status # "active" THEN Refused("unauthorized")
                                                ELSE Context(record.id, Or(None, "api"), DefaultPermissions)
    BY <1>2, <1>3 DEF ByRegistry
  <1>6. Refused("unauthorized").ok = FALSE
    BY DEF Refused
  <1>7. \A tenant, user, permissions : Context(tenant, user, permissions).ok = TRUE /\ Context(tenant, user, permissions).tenant = tenant
    BY DEF Context
  <1>8. found = {} => ~result.ok
    BY <1>4, <1>6
  <1>9. ASSUME NEW record, found = {record} PROVE (result.ok <=> record.status = "active") /\ (result.ok => result.tenant = record.id)
    <2>1. result = ByRegistry(WithKey, record)
      BY <1>4, <1>9
    <2> HIDE DEF result
    <2>2. CASE record.status = "active"
      BY <1>5, <1>7, <2>1, <2>2
    <2>3. CASE record.status # "active"
      BY <1>5, <1>6, <2>1, <2>3
    <2> QED
      BY <2>2, <2>3
  <1> QED
    BY <1>8, <1>9 DEF config

\* What the registry holds decides what the authenticator admits.
LEMMA TenantInvAdmits ==
    ASSUME TenantInv
    PROVE  KeyAdmits
  <1>1. TenantTypes /\ KeysTaken /\ IndexSound /\ ShownSound /\ RegistryAgrees
    BY TenantInvAgrees DEF TenantInv
  <1>2. ASSUME NEW k \in Keys, k[1] \notin raced
        PROVE  LET result == Authenticate(Config("enforced", None, TRUE, None, FALSE, None), WithKey, Resolve(k))
               IN  /\ result.ok <=> Known(k[1]) /\ tenants[k[1]].status = "active" /\ k \in shown \ gone
                   /\ result.ok => result.tenant = k[1]
    <2> DEFINE result == Authenticate(Config("enforced", None, TRUE, None, FALSE, None), WithKey, Resolve(k))
    <2>1. k[1] \in Tenants
      BY DEF Keys
    <2>2. k \in DOMAIN by_digest <=> k \in KeysNow(k[1])
      BY <1>1, <1>2, <2>1 DEF IndexSound
    <2>3. k \in KeysNow(k[1]) => Known(k[1]) /\ k \in shown
      BY <1>1 DEF KeysNow, Known, KeysTaken
    <2>4. k \in KeysNow(k[1]) <=> k \in shown \ gone
      BY <1>1, <1>2, <2>1, <2>3 DEF ShownSound
    <2>5. k \in DOMAIN by_digest => by_digest[k] = k[1] /\ Known(k[1]) /\ tenants[k[1]].id = k[1]
      BY <1>1, <2>2, <2>3 DEF TenantTypes, Known
    <2>6. Resolve(k) = IF k \in shown \ gone THEN {tenants[k[1]]} ELSE {}
      BY <2>2, <2>4, <2>5 DEF Resolve
    <2>7. /\ Resolve(k) = {} => ~result.ok
          /\ \A record : Resolve(k) = {record} => (result.ok <=> record.status = "active") /\ (result.ok => result.tenant = record.id)
      BY KeyAlone
    <2> HIDE DEF result
    <2>8. CASE k \in shown \ gone
      BY <2>2, <2>4, <2>5, <2>6, <2>7, <2>8 DEF result
    <2>9. CASE k \notin shown \ gone
      BY <2>6, <2>7, <2>9 DEF result
    <2> QED
      BY <2>8, <2>9
  <1> QED
    BY <1>2 DEF KeyAdmits

-----------------------------------------------------------------------------
(* The provider's keys.                                                    *)

\* The cache holds what was published when it was filled: at the start, or when a document was fetched.
JwksInv ==
    /\ now \in Nat /\ published \in Seq(KeySets) /\ Len(published) = now + 1
    /\ \/ fetched_at = 0 - Ttl /\ cached = UsableKeys(published[1])
       \/ fetched_at \in 0..now /\ cached = UsableKeys(published[fetched_at + 1])
    /\ answer.at \in 0..now
    /\ KeysFresh

\* It holds when the first document was fetched.
LEMMA JwksInitInv == JwksInit => JwksInv
  <1> SUFFICES ASSUME JwksInit PROVE JwksInv
    OBVIOUS
  <1>1. PICK keys \in KeySets : cached = UsableKeys(keys) /\ published = <<keys>>
    BY DEF JwksInit
  <1>2. published \in Seq(KeySets) /\ Len(published) = 1 /\ published[1] = keys
    BY <1>1
  <1>3. answer.met = "nothing" /\ answer.at = 0 /\ now = 0 /\ fetched_at = 0 - Ttl
    BY DEF JwksInit
  <1>4. KeysFresh
    BY <1>3 DEF KeysFresh
  <1> QED
    BY <1>1, <1>2, <1>3, <1>4 DEF JwksInv

\* An answer of keys published at some time, recent enough.
LEMMA AnswerFresh ==
    ASSUME NEW t \in Nat, t <= answer.at, answer.at \in Nat, answer.keys = UsableKeys(published[t + 1]),
           t >= answer.at - Ttl + 1 \/ t = answer.at \/ answer.met = "malformed"
    PROVE  KeysFresh
  <1>1. t \in 0..answer.at
    OBVIOUS
  <1>2. (t >= IF answer.met = "malformed" THEN 0 ELSE answer.at - Ttl + 1) \/ t = answer.at
    BY JwksAssumption
  <1> QED
    BY <1>1, <1>2 DEF KeysFresh

\* Every step of the cache keeps it.
LEMMA JwksStepInv ==
    ASSUME JwksInv, JwksNext
    PROVE  JwksInv'
  <1>1. /\ now \in Nat /\ published \in Seq(KeySets) /\ Len(published) = now + 1 /\ answer.at \in 0..now /\ KeysFresh /\ Ttl \in Nat
        /\ \/ fetched_at = 0 - Ttl /\ cached = UsableKeys(published[1])
           \/ fetched_at \in 0..now /\ cached = UsableKeys(published[fetched_at + 1])
    BY JwksAssumption DEF JwksInv
  <1>2. CASE Passes
    <2>1. PICK keys \in KeySets : published' = Append(published, keys)
      BY <1>2 DEF Passes
    <2>2. now' = now + 1 /\ UNCHANGED <<cached, fetched_at, answer>>
      BY <1>2 DEF Passes
    <2>3. published' \in Seq(KeySets) /\ Len(published') = now' + 1 /\ \A t \in 0..now : published'[t + 1] = published[t + 1]
      BY <1>1, <2>1, <2>2
    <2>4. \/ fetched_at' = 0 - Ttl /\ cached' = UsableKeys(published'[1])
          \/ fetched_at' \in 0..now' /\ cached' = UsableKeys(published'[fetched_at' + 1])
      <3>1. published'[1] = published[1]
        BY <1>1, <2>1
      <3> QED
        BY <1>1, <2>2, <2>3, <3>1
    <2>5. KeysFresh'
      <3>1. \A t \in 0..answer.at : published'[t + 1] = published[t + 1]
        BY <1>1, <2>3
      <3> QED
        BY <1>1, <2>2, <3>1 DEF KeysFresh
    <2> QED
      BY <1>1, <2>2, <2>3, <2>4, <2>5 DEF JwksInv
  <1>3. CASE RefreshFresh
    <2>1. /\ ~Stale /\ answer' = [met |-> "cache", keys |-> cached, at |-> now] /\ UNCHANGED <<now, published, cached, fetched_at>>
      BY <1>3 DEF RefreshFresh, Answer
    <2>2. fetched_at \in 0..now /\ cached = UsableKeys(published[fetched_at + 1]) /\ fetched_at >= now - Ttl + 1
      BY <1>1, <2>1 DEF Stale
    <2>3. KeysFresh'
      BY <1>1, <2>1, <2>2, AnswerFresh DEF KeysFresh
    <2> QED
      BY <1>1, <2>1, <2>3 DEF JwksInv
  <1>4. CASE RefreshFetched
    <2>1. /\ cached' = UsableKeys(published[now + 1]) /\ fetched_at' = now /\ UNCHANGED <<now, published>>
          /\ answer' = [met |-> "document", keys |-> cached', at |-> now]
      BY <1>4 DEF RefreshFetched, Answer
    <2>2. KeysFresh'
      BY <1>1, <2>1 DEF KeysFresh
    <2> QED
      BY <1>1, <2>1, <2>2 DEF JwksInv
  <1>5. CASE RefreshMalformed
    <2>1. answer' = [met |-> "malformed", keys |-> cached, at |-> now] /\ UNCHANGED <<now, published, cached, fetched_at>>
      BY <1>5 DEF RefreshMalformed, Answer
    <2>2. \E t \in 0..now : cached = UsableKeys(published[t + 1])
      <3>1. CASE fetched_at = 0 - Ttl /\ cached = UsableKeys(published[1])
        <4>1. 0 \in 0..now /\ published[0 + 1] = published[1]
          BY <1>1
        <4> QED
          BY <3>1, <4>1
      <3> QED
        BY <1>1, <3>1
    <2>3. KeysFresh'
      BY <1>1, <2>1, <2>2 DEF KeysFresh
    <2> QED
      BY <1>1, <2>1, <2>3 DEF JwksInv
  <1>6. CASE RefreshFailed
    <2>1. answer' = [met |-> "failure", keys |-> <<>>, at |-> now] /\ UNCHANGED <<now, published, cached, fetched_at>>
      BY <1>6 DEF RefreshFailed, Answer
    <2>2. KeysFresh'
      BY <2>1 DEF KeysFresh
    <2> QED
      BY <1>1, <2>1, <2>2 DEF JwksInv
  <1> QED
    BY <1>2, <1>3, <1>4, <1>5, <1>6 DEF JwksNext

\* It speaks of the cache only.
LEMMA JwksStutterInv ==
    ASSUME JwksInv, UNCHANGED jwksVars
    PROVE  JwksInv'
  BY DEF jwksVars, JwksInv, KeysFresh

\* The keys a request is checked with are fresh.
THEOREM ProviderKeysFresh == JwksSpec => []KeysFresh
  <1>1. JwksInv /\ [JwksNext]_jwksVars => JwksInv'
    BY JwksStepInv, JwksStutterInv
  <1>2. JwksInv => KeysFresh
    BY DEF JwksInv
  <1> QED
    BY JwksInitInv, <1>1, <1>2, PTL DEF JwksSpec

-----------------------------------------------------------------------------
(* The backups.                                                            *)

Waits == {n \in Nat : \E interval \in Intervals : n <= interval}
Sleeps == [pc : {"sleeping"}, left : Waits]
Looks == [pc : {"looking", "running"}, interval : Intervals]
RecordsRun == [pc : {"recording"}, age : Nat, ok : BOOLEAN, interval : Intervals]
ThreadStates == {Reading} \union Sleeps \union Looks \union RecordsRun

\* One thread from the first time the schedule is enabled, and it sleeps for an interval somebody set.
SchedulerInv ==
    /\ scheduler_started \in BOOLEAN
    /\ schedule.enabled => schedule.interval \in Intervals
    /\ scheduler \in Seq(ThreadStates) /\ Len(scheduler) = IF scheduler_started THEN 1 ELSE 0

\* A schedule waits at least a second.
LEMMA IntervalsWait ==
    /\ \A n \in Intervals : n \in Waits
    /\ 1 \in Waits /\ \A n \in Waits : n > 0 => n - 1 \in Waits
  <1>1. Intervals \subseteq Nat \ {0} /\ Intervals # {}
    BY BackupAssumption
  <1>2. \A n \in Intervals : n \in Waits
    BY <1>1 DEF Waits
  <1>3. 1 \in Waits
    <2>1. PICK n \in Intervals : n \in Nat \ {0}
      BY <1>1
    <2>2. 1 <= n /\ 1 \in Nat
      BY <2>1
    <2> QED
      BY <2>2 DEF Waits
  <1>4. ASSUME NEW n \in Waits, n > 0 PROVE n - 1 \in Waits
    <2>1. PICK interval \in Intervals : n <= interval
      BY <1>4 DEF Waits
    <2>2. n \in Nat /\ interval \in Nat
      BY <1>1, <1>4 DEF Waits
    <2>3. n - 1 \in Nat /\ n - 1 <= interval
      BY <1>4, <2>1, <2>2
    <2> QED
      BY <2>3 DEF Waits
  <1> QED
    BY <1>2, <1>3, <1>4

\* A scheduler thread is told by its pc.
LEMMA ThreadKinds ==
    ASSUME NEW t \in ThreadStates
    PROVE  /\ t.pc = "sleeping" => t \in Sleeps
           /\ t.pc \in {"looking", "running"} => t \in Looks
           /\ t.pc = "recording" => t \in RecordsRun
  BY DEF ThreadStates, Reading, Sleeps, Looks, RecordsRun

\* A thread that goes on is the same thread.
LEMMA ThreadGoesOn ==
    ASSUME SchedulerInv, NEW i \in DOMAIN scheduler, NEW state \in ThreadStates, ThreadGoes(i, state), UNCHANGED <<schedule, scheduler_started>>
    PROVE  SchedulerInv'
  <1>1. scheduler' \in Seq(ThreadStates) /\ Len(scheduler') = Len(scheduler)
    BY DEF SchedulerInv, ThreadGoes
  <1> QED
    BY <1>1 DEF SchedulerInv

\* The invariant holds when the service starts.
LEMMA BackupInitInv ==
    ASSUME BackupInit
    PROVE  SchedulerInv
  <1>1. Reading \in ThreadStates
    BY DEF ThreadStates
  <1>2. schedule.enabled \in BOOLEAN /\ (schedule.enabled => schedule.interval \in Intervals)
    <2>1. CASE schedule = [enabled |-> FALSE, interval |-> 0]
      BY <2>1
    <2>2. ASSUME NEW n \in Intervals, schedule = [enabled |-> TRUE, interval |-> n] PROVE schedule.enabled \in BOOLEAN /\ schedule.interval \in Intervals
      BY <2>2
    <2> QED
      BY <2>1, <2>2 DEF BackupInit
  <1>3. scheduler \in Seq(ThreadStates) /\ Len(scheduler) = IF scheduler_started THEN 1 ELSE 0
    BY <1>1 DEF BackupInit
  <1> QED
    BY <1>2, <1>3 DEF SchedulerInv, BackupInit

\* Every step of the scheduler keeps it.
LEMMA BackupStepInv ==
    ASSUME SchedulerInv, BackupNext
    PROVE  SchedulerInv'
  <1>1. Reading \in ThreadStates /\ \A n \in Waits : Asleep(n) \in ThreadStates
    BY DEF ThreadStates, Asleep, Sleeps
  <1>2. CASE \E a \in Admins : RunBackup(a) \/ RecordRun(a)
    BY <1>2 DEF RunBackup, RecordRun, SchedulerInv
  <1>3. ASSUME NEW a \in Admins, NEW enabled \in BOOLEAN, NEW interval \in Intervals, SetSchedule(a, enabled, interval)
        PROVE  SchedulerInv'
    BY <1>3 DEF SetSchedule, SchedulerInv
  <1>4. ASSUME NEW a \in Admins, SpawnScheduler(a) PROVE SchedulerInv'
    <2>1. scheduler_started' = TRUE /\ schedule' = schedule
          /\ scheduler' = IF scheduler_started THEN scheduler ELSE Append(scheduler, Reading)
      BY <1>4 DEF SpawnScheduler
    <2> QED
      BY <1>1, <2>1 DEF SchedulerInv
  <1>5. ASSUME NEW i \in DOMAIN scheduler, ReadSchedule(i) \/ LookAtRuns(i) \/ SchedulerRuns(i) \/ SchedulerRecords(i) \/ Wakes(i)
        PROVE  SchedulerInv'
    <2>1. PICK t : t = scheduler[i]
      OBVIOUS
    <2>2. t \in ThreadStates
      BY <2>1 DEF SchedulerInv
    <2>3. CASE ReadSchedule(i)
      <3>1. PICK state : ThreadGoes(i, state) /\ state = IF schedule.enabled THEN [pc |-> "looking", interval |-> schedule.interval] ELSE WhenDisabled
        BY <2>3 DEF ReadSchedule
      <3>2. state \in ThreadStates
        BY <1>1, <3>1, IntervalsWait DEF SchedulerInv, WhenDisabled, ThreadStates, Looks
      <3> QED
        BY <2>3, <3>1, <3>2, ThreadGoesOn DEF ReadSchedule
    <2>4. CASE LookAtRuns(i)
      <3>1. t \in Looks
        BY <2>1, <2>2, <2>4, ThreadKinds DEF LookAtRuns, ThreadAt
      <3>2. PICK state : ThreadGoes(i, state) /\ state = IF Due(t.interval) THEN [pc |-> "running", interval |-> t.interval] ELSE Asleep(t.interval)
        BY <2>1, <2>4 DEF LookAtRuns
      <3>3. t.interval \in Intervals /\ Asleep(t.interval) \in ThreadStates
        BY <1>1, <3>1, IntervalsWait DEF Looks
      <3>4. state \in ThreadStates
        BY <3>2, <3>3 DEF ThreadStates, Looks
      <3> QED
        BY <2>4, <3>2, <3>4, ThreadGoesOn DEF LookAtRuns
    <2>5. CASE SchedulerRuns(i)
      <3>1. t \in Looks
        BY <2>1, <2>2, <2>5, ThreadKinds DEF SchedulerRuns, ThreadAt
      <3>2. t.interval \in Intervals /\ Asleep(t.interval) \in ThreadStates
        BY <1>1, <3>1, IntervalsWait DEF Looks
      <3>3. PICK state : ThreadGoes(i, state) /\ ((\E ok \in BOOLEAN : state = Recording(0, ok, t.interval)) \/ state = Asleep(t.interval))
        BY <2>1, <2>5 DEF SchedulerRuns
      <3>4. state \in ThreadStates
        BY <3>2, <3>3 DEF ThreadStates, RecordsRun, Recording
      <3> QED
        BY <2>5, <3>3, <3>4, ThreadGoesOn DEF SchedulerRuns
    <2>6. CASE SchedulerRecords(i)
      <3>1. t \in RecordsRun
        BY <2>1, <2>2, <2>6, ThreadKinds DEF SchedulerRecords, ThreadAt
      <3>2. ThreadGoes(i, Asleep(t.interval)) /\ Asleep(t.interval) \in ThreadStates
        BY <1>1, <2>1, <2>6, <3>1, IntervalsWait DEF SchedulerRecords, RecordsRun
      <3> QED
        BY <2>6, <3>2, ThreadGoesOn DEF SchedulerRecords
    <2>7. CASE Wakes(i)
      BY <1>1, <2>7, ThreadGoesOn DEF Wakes
    <2> QED
      BY <1>5, <2>3, <2>4, <2>5, <2>6, <2>7
  <1>6. CASE Second
    <2> DEFINE later(t) == IF t.pc = "sleeping" /\ t.left > 0 THEN [t EXCEPT !.left = @ - 1] ELSE Ages(t)
    <2>1. ASSUME NEW t \in ThreadStates PROVE later(t) \in ThreadStates
      <3>1. CASE t.pc = "sleeping"
        BY <3>1, ThreadKinds, IntervalsWait DEF Sleeps, ThreadStates, Ages, Waits
      <3>2. CASE t.pc = "recording"
        BY <3>2, ThreadKinds DEF RecordsRun, ThreadStates, Ages, Older
      <3>3. CASE t.pc # "sleeping" /\ t.pc # "recording"
        BY <3>3 DEF Ages
      <3> QED
        BY <3>1, <3>2, <3>3
    <2>2. scheduler' = [i \in DOMAIN scheduler |-> later(scheduler[i])] /\ UNCHANGED <<schedule, scheduler_started>>
      BY <1>6 DEF Second
    <2> HIDE DEF later
    <2>3. scheduler' \in Seq(ThreadStates) /\ Len(scheduler') = Len(scheduler)
      <3>1. DOMAIN scheduler = 1..Len(scheduler) /\ Len(scheduler) \in Nat /\ \A i \in DOMAIN scheduler : scheduler[i] \in ThreadStates
        <4>1. scheduler \in Seq(ThreadStates)
          BY DEF SchedulerInv
        <4> HIDE DEF ThreadStates
        <4> QED
          BY <4>1
      <3>2. DOMAIN scheduler' = 1..Len(scheduler) /\ scheduler' \in [1..Len(scheduler) -> ThreadStates]
        BY <2>1, <2>2, <3>1
      <3> QED
        BY <3>1, <3>2
    <2> QED
      BY <2>2, <2>3 DEF SchedulerInv
  <1> QED
    BY <1>2, <1>3, <1>4, <1>5, <1>6 DEF BackupNext, RequestsEnd, SchedulerStep

\* It speaks of the scheduler only.
LEMMA BackupStutterInv ==
    ASSUME SchedulerInv, UNCHANGED backupVars
    PROVE  SchedulerInv'
  BY DEF backupVars, SchedulerInv

\* It says that there is one scheduler at most.
LEMMA SchedulerInvOne ==
    ASSUME SchedulerInv
    PROVE  OneScheduler
  <1>1. Len(scheduler) <= 1
    BY DEF SchedulerInv
  <1>2. ASSUME NEW i \in DOMAIN scheduler, scheduler[i].pc = "sleeping" PROVE \E n \in Intervals : scheduler[i].left <= n
    <2>1. scheduler[i] \in Sleeps
      BY <1>2, ThreadKinds DEF SchedulerInv
    <2> QED
      BY <2>1 DEF Sleeps, Waits
  <1> QED
    BY <1>1, <1>2 DEF OneScheduler

\* One thread looks after the backups.
THEOREM SchedulerAlone == BackupSpec => []OneScheduler
  <1>1. SchedulerInv /\ [BackupNext]_backupVars => SchedulerInv'
    BY BackupStepInv, BackupStutterInv
  <1> QED
    BY BackupInitInv, SchedulerInvOne, <1>1, PTL DEF BackupSpec

-----------------------------------------------------------------------------
(* Credentials.  A function that answers for one request: no state, so what holds holds at once. *)

\* Whatever keys the management plane is given, a key that changes something also reads, none passes without one
\* when one is set, and the one for reading changes nothing.
THEOREM KeysRanked == \A acl, key : KeyRanks(acl, key)
  BY DEF KeyRanks, AllowsRead, AllowsWrite

\* A kid that one key has selects that key.
LEMMA SelectedAlone ==
    ASSUME NEW S, NEW keys \in Seq(S), NEW token, NEW n \in Nat, n = Len(keys), NEW i \in DOMAIN keys, token.kid = None => keys[i].alg = token.alg,
           \A j \in DOMAIN keys : keys[j].kid = token.kid <=> i = j
    PROVE  Selected(keys, token) = {keys[i]}
  <1>1. \A found \in SUBSET (1..n) : found = {i} => FirstOf(keys, found) = {keys[i]}
    BY DEF FirstOf
  <1>2. token.kid # None => {j \in DOMAIN keys : keys[j].kid = token.kid} = {i}
    OBVIOUS
  <1>3. token.kid = None => {j \in DOMAIN keys : keys[j].kid = None /\ keys[j].alg = token.alg} = {i}
    OBVIOUS
  <1>4. Len(keys) = 1 => i = 1
    OBVIOUS
  <1> QED
    BY <1>1, <1>2, <1>3, <1>4 DEF Selected

\* What is selected is one of the keys.
LEMMA SelectedIn ==
    ASSUME NEW S, NEW keys \in Seq(S), NEW token, NEW key \in Selected(keys, token)
    PROVE  \E i \in DOMAIN keys : key = keys[i]
  <1>1. ASSUME NEW found \in SUBSET DOMAIN keys, key \in FirstOf(keys, found) PROVE \E i \in DOMAIN keys : key = keys[i]
    BY <1>1 DEF FirstOf
  <1>2. Len(keys) = 1 => 1 \in DOMAIN keys
    OBVIOUS
  <1> QED
    BY <1>1, <1>2 DEF Selected

\* The tokens and the provider's keys over any texts; times are seconds, a claim is there or not.
TokenClaims(texts) == [sub : texts, exp : SUBSET Int, nbf : SUBSET Int, tenant : texts, scope : SUBSET SUBSET (texts \X texts), iss : texts, aud : texts]
Tokens(texts) == [parts : Nat, alg : texts, kid : texts, signer : texts \ {"another"}, claims : TokenClaims(texts)]
ProviderKeys(texts) == [name : texts, kid : texts, kty : texts, alg : texts, use : texts, material : BOOLEAN]

\* For any keys, claims and times: a token is accepted over one stretch of time, never once its signer's key was
\* replaced, and exactly inside its times when its kid, or its algorithm, names its signer's key alone.
THEOREM TokensAreExact ==
    ASSUME NEW texts, "another" \in texts, NEW token \in Tokens(texts), NEW keys \in Seq(ProviderKeys(texts)), NEW config, NEW times \in SUBSET Int, Leeway \in Int
    PROVE  TokensExact(token, keys, config, times)
  <1> DEFINE Admitted == /\ token.parts = 3 /\ token.alg \in {"RS256", "HS256"}
                         /\ \E key \in Selected(keys, token) : key.use # "enc" /\ Verifies(key, token)
                         /\ ClaimsRead(token.claims)
             accepted == {t \in times : Accepts(token, keys, config, t)}
  <1>1. accepted = {t \in times : Admitted /\ ClaimsValid(token.claims, config, t)}
    BY DEF Accepts, OidcAccepts
  <1>2. token.claims.exp \subseteq Int /\ token.claims.nbf \subseteq Int /\ token.signer # "another"
    BY DEF Tokens, TokenClaims
  <1> HIDE DEF Admitted, accepted
  <1>3. \A t, u \in accepted, between \in times : t <= between /\ between <= u => between \in accepted
    <2>1. SUFFICES ASSUME NEW t \in accepted, NEW u \in accepted, NEW between \in times, t <= between, between <= u
                   PROVE  ClaimsValid(token.claims, config, between)
      BY <1>1
    <2>2. t \in times /\ u \in times /\ ClaimsValid(token.claims, config, t) /\ ClaimsValid(token.claims, config, u)
      BY <1>1
    <2>a. /\ \A e \in token.claims.exp : e \in Int /\ e + Leeway >= u
          /\ \A e \in token.claims.nbf : e \in Int /\ e <= t + Leeway
      BY <1>2, <2>2 DEF ClaimsValid
    <2>b. t \in Int /\ u \in Int /\ between \in Int
      BY <2>2
    <2>3. \A e \in token.claims.exp : e + Leeway >= between
      BY <2>1, <2>a, <2>b
    <2>4. \A e \in token.claims.nbf : e <= between + Leeway
      BY <2>1, <2>a, <2>b
    <2> QED
      BY <2>2, <2>3, <2>4 DEF ClaimsValid
  <1>4. \A t \in times : ~Accepts(token, Rotated(keys, token.signer), config, t)
    <2> DEFINE others == Rotated(keys, token.signer)
    <2>1. others \in Seq(ProviderKeys(texts)) /\ \A i \in DOMAIN others : others[i].name # token.signer
      <3>1. ASSUME NEW i \in DOMAIN keys PROVE others[i] \in ProviderKeys(texts) /\ others[i].name # token.signer
        <4>1. keys[i] \in ProviderKeys(texts)
          OBVIOUS
        <4>2. CASE keys[i].name = token.signer
          <5>1. others[i] = [keys[i] EXCEPT !.name = "another"]
            BY <4>2 DEF Rotated
          <5> HIDE DEF others
          <5>2. PICK key \in ProviderKeys(texts) : key = keys[i]
            BY <4>1
          <5>3. key = [name |-> key.name, kid |-> key.kid, kty |-> key.kty, alg |-> key.alg, use |-> key.use, material |-> key.material]
            BY DEF ProviderKeys
          <5>4. [key EXCEPT !.name = "another"] = [name |-> "another", kid |-> key.kid, kty |-> key.kty, alg |-> key.alg, use |-> key.use, material |-> key.material]
            BY <5>3
          <5>5. [key EXCEPT !.name = "another"] \in ProviderKeys(texts) /\ [key EXCEPT !.name = "another"].name = "another"
            <6>1. key.kid \in texts /\ key.kty \in texts /\ key.alg \in texts /\ key.use \in texts /\ key.material \in BOOLEAN
              BY DEF ProviderKeys
            <6>2. [name |-> "another", kid |-> key.kid, kty |-> key.kty, alg |-> key.alg, use |-> key.use, material |-> key.material] \in ProviderKeys(texts)
              BY <6>1 DEF ProviderKeys
            <6> QED
              BY <5>4, <6>2
          <5> QED
            BY <1>2, <5>1, <5>2, <5>5
        <4>3. CASE keys[i].name # token.signer
          BY <4>1, <4>3 DEF Rotated
        <4> QED
          BY <4>2, <4>3
      <3>2. Len(keys) \in Nat /\ DOMAIN keys = 1..Len(keys) /\ DOMAIN others = 1..Len(keys) /\ others = [i \in 1..Len(keys) |-> others[i]]
        BY DEF Rotated
      <3>3. \A i \in 1..Len(keys) : others[i] \in ProviderKeys(texts)
        BY <3>1
      <3> HIDE DEF others
      <3>4. others \in [1..Len(keys) -> ProviderKeys(texts)]
        BY <3>2, <3>3
      <3>5. others \in Seq(ProviderKeys(texts))
        BY <3>2, <3>4, SeqDef
      <3> QED
        BY <3>1, <3>2, <3>5
    <2> HIDE DEF others
    <2>2. \A key \in Selected(others, token) : ~Verifies(key, token)
      BY <2>1, SelectedIn DEF Verifies
    <2> QED
      BY <2>2 DEF Accepts, OidcAccepts, others
  <1>5. \A t \in accepted : \A e \in token.claims.exp : t <= e + Leeway
    BY <1>1, <1>2 DEF ClaimsValid
  <1>6. ASSUME token.parts = 3, token.alg \in {"RS256", "HS256"}, ClaimsRead(token.claims), NamedAlone(keys, token)
        PROVE  accepted = {t \in times : ClaimsValid(token.claims, config, t)}
    <2>1. PICK i \in DOMAIN keys : keys[i].use # "enc" /\ Verifies(keys[i], token) /\ (\A j \in DOMAIN keys : keys[j].kid = token.kid <=> i = j)
                             /\ (token.kid = None => keys[i].alg = token.alg)
      BY <1>6 DEF NamedAlone
    <2>2. Selected(keys, token) = {keys[i]}
      BY <1>6, <2>1, SelectedAlone
    <2> QED
      BY <1>1, <1>6, <2>1, <2>2 DEF Admitted
  <1> QED
    BY <1>3, <1>4, <1>5, <1>6, Zenon DEF TokensExact, accepted

\* For any credential and any record its key belongs to: other tenant and user headers are refused or change nothing
\* but the user's name, and a disabled tenant's key admits nobody.
THEOREM IdentitiesAreBound ==
    ASSUME NEW given, given = [tenant |-> given.tenant, user |-> given.user, key |-> given.key, scheme |-> given.scheme],
           NEW found, \A r, s \in found : r = s,
           NEW config, NEW token, NEW keys, NEW headers
    PROVE  IdentityBound(config, given, token, found, keys, headers)
  <1> DEFINE Given(r) == AuthenticateWithBearer(config, r, token, found, keys, 0)
             With(h) == [given EXCEPT !.tenant = h.tenant, !.user = h.user]
             Expected == IF Bears(given) THEN token.claims.tenant ELSE (CHOOSE record \in found : TRUE).id
  <1> SUFFICES ASSUME config.mode = "enforced", Decided(config, given, token, found)
               PROVE  /\ \A h \in headers : (Given(given).ok /\ Given(With(h)).ok) =>
                             Given(given).tenant = Given(With(h)).tenant /\ Given(given).permissions = Given(With(h)).permissions
                      /\ (Given(given).ok /\ ~Bears(given)) => \A record \in found : record.status = "active" /\ Given(given).tenant = record.id
    BY DEF IdentityBound
  <1>1. "key" \in DOMAIN given /\ "scheme" \in DOMAIN given
    <2>1. PICK tenant, user, key, scheme : given = [tenant |-> tenant, user |-> user, key |-> key, scheme |-> scheme]
      OBVIOUS
    <2> QED
      BY <2>1
  <1>2. \A h : With(h).scheme = given.scheme /\ With(h).key = given.key
    BY <1>1
  <1> HIDE DEF With
  <1>3. \A why : ~Refused(why).ok
    BY DEF Refused
  <1>4. \A tenant, user, permissions : /\ Context(tenant, user, permissions).ok
                                       /\ Context(tenant, user, permissions).tenant = tenant
                                       /\ Context(tenant, user, permissions).permissions = permissions
    BY DEF Context
  <1>5. CASE Bears(given) /\ (config.oidc \/ config.secret # None)
    <2>1. token.claims.tenant # None
      BY <1>5 DEF Decided
    <2>2. ASSUME NEW r, r.scheme = given.scheme, Given(r).ok
          PROVE  Given(r).tenant = Or(token.claims.tenant, "system") /\ Given(r).permissions = ClaimedPermissions(token.claims)
      <3>1. Bears(r)
        BY <1>5, <2>2 DEF Bears
      <3>2. Given(r) = FromClaims(token.claims, r)
        BY <1>3, <1>5, <2>2, <3>1 DEF AuthenticateWithBearer
      <3>3. ClaimedTenant(token.claims, r.tenant) = Or(token.claims.tenant, "system")
        BY <2>1 DEF ClaimedTenant
      <3> QED
        BY <1>4, <3>2, <3>3 DEF FromClaims
    <2> QED
      BY <1>2, <1>5, <2>2
  <1>6. CASE ~(Bears(given) /\ (config.oidc \/ config.secret # None))
    <2>1. Registered(config, given, found)
      BY <1>6 DEF Decided
    <2>2. PICK record \in found : record = CHOOSE r \in found : TRUE
      BY <2>1 DEF Registered
    <2>3. ASSUME NEW r, r.scheme = given.scheme, r.key = given.key, Given(r).ok
          PROVE  record.status = "active" /\ Given(r).tenant = record.id /\ Given(r).permissions = DefaultPermissions
      <3>1. Given(r) = Authenticate(config, r, found)
        BY <1>6, <2>3 DEF AuthenticateWithBearer, Bears
      <3>2. Registered(config, r, found)
        BY <2>1, <2>3 DEF Registered
      <3>3. Given(r) = ByRegistry(r, record)
        BY <2>2, <3>1, <3>2 DEF Authenticate
      <3> QED
        BY <1>3, <1>4, <2>3, <3>3 DEF ByRegistry
    <2>4. \A r \in found : r = record
      BY <2>2
    <2> QED
      BY <1>2, <2>3, <2>4
  <1> QED
    BY <1>5, <1>6

-----------------------------------------------------------------------------
(* The gateway.                                                            *)

BusyThreads == {c \in Threads : call[c] # Resting}
Committing == {"committed", "half read", "read"}

\* What a thread is at.
IsCall(r) ==
    \/ r = Resting
    \/ /\ r.request \in Traffic
       /\ \/ r.pc \in {"arrived", "working"} /\ r = [pc |-> r.pc, request |-> r.request]
          \/ r.pc = "answering" /\ r = [pc |-> "answering", request |-> r.request, status |-> r.status] /\ r.status \in Codes
          \/ r.pc = "committed" /\ r = [pc |-> "committed", request |-> r.request, put |-> r.put] /\ IsFiniteSet(r.put)
          \/ /\ r.pc \in {"half read", "read"} /\ r = [pc |-> r.pc, request |-> r.request, put |-> r.put, present |-> r.present]
             /\ IsFiniteSet(r.put) /\ IsFiniteSet(r.present)

Counters == [requests : Nat, sparql : Nat, errors : Nat, ingests : Nat, answered : Nat, audited : Nat, statuses : [Codes -> Nat]]

GatewayTypes ==
    /\ enforced \in BOOLEAN
    /\ IsFiniteSet(store) /\ IsFiniteSet(indexed) /\ counted \in Nat
    /\ call = [c \in Threads |-> call[c]] /\ \A c \in Threads : IsCall(call[c])

\* The lock is held between the first reading of the store and the reconciliation.
LockHeld == \A c \in Threads : call[c].pc \in {"half read", "read"} <=> holder = c

\* What a reconciliation has read covers the store, but for what others have committed and not yet reconciled.
PendingAt(c, st) == call[c].pc \in Committing /\ st \in call[c].put
ReadCovers ==
    \A c \in Threads :
        LET read == IF call[c].pc = "read" THEN store ELSE IF call[c].pc = "half read" THEN InDefault(store) ELSE {}
        IN  \A st \in read : st \in call[c].present \/ \E d \in Threads \ {c} : PendingAt(d, st)

\* Every request but the preflights is under way or answered.
CountersExact ==
    /\ metrics \in Counters /\ options \in Nat
    /\ LET count == metrics.statuses IN metrics.answered = count[200] + count[400] + count[401] + count[403] + count[500]
    /\ metrics.requests = metrics.answered + options + Cardinality(BusyThreads)

GatewayInv == GatewayTypes /\ LockHeld /\ ReadCovers /\ CountersExact /\ IndexComplete /\ CapHolds /\ IngestConfined

-----------------------------------------------------------------------------
(* Sets of statements and terms.                                           *)

\* Two sets together have at most as many elements as both.
LEMMA UnionBound ==
    ASSUME NEW S, NEW T, IsFiniteSet(S), IsFiniteSet(T)
    PROVE  /\ IsFiniteSet(S \union T) /\ Cardinality(S \union T) \in Nat /\ Cardinality(S) \in Nat /\ Cardinality(T) \in Nat
           /\ Cardinality(S \union T) <= Cardinality(S) + Cardinality(T)
  <1>1. IsFiniteSet(S \union T) /\ Cardinality(S \union T) = Cardinality(S) + Cardinality(T) - Cardinality(S \cap T)
    BY FS_Union
  <1>2. IsFiniteSet(S \cap T)
    BY FS_Intersection
  <1>3. Cardinality(S \union T) \in Nat /\ Cardinality(S) \in Nat /\ Cardinality(T) \in Nat /\ Cardinality(S \cap T) \in Nat
    BY <1>1, <1>2, FS_CardinalityType
  <1> QED
    BY <1>1, <1>3

\* Fewer of a finite set are a finite set.
LEMMA FinitePart ==
    ASSUME NEW S, IsFiniteSet(S), NEW T, T \subseteq S
    PROVE  IsFiniteSet(T) /\ Cardinality(T) \in Nat /\ Cardinality(S) \in Nat /\ Cardinality(T) <= Cardinality(S)
  <1>1. IsFiniteSet(T) /\ Cardinality(T) <= Cardinality(S)
    BY FS_Subset
  <1> QED
    BY <1>1, FS_CardinalityType

\* A finite set of places shows finitely many terms, at most one each.
LEMMA TermsFew ==
    ASSUME NEW O, IsFiniteSet(O)
    PROVE  /\ IsFiniteSet(TermsAt(O)) /\ Cardinality(TermsAt(O)) <= Cardinality(O)
           /\ Cardinality(TermsAt(O)) \in Nat /\ Cardinality(O) \in Nat
  <1> DEFINE term == [x \in O |-> TermAt(x)]
  <1>1. term \in Surjection(O, TermsAt(O))
    <2>1. term \in [O -> TermsAt(O)] /\ \A t \in TermsAt(O) : \E x \in O : term[x] = t
      BY DEF TermsAt
    <2> HIDE DEF term
    <2> QED
      BY <2>1 DEF Surjection
  <1> HIDE DEF term
  <1>2. IsFiniteSet(TermsAt(O)) /\ Cardinality(TermsAt(O)) <= Cardinality(O)
    BY <1>1, FS_Surjection
  <1> QED
    BY <1>2, FS_CardinalityType

\* The places of finitely many statements are finitely many.
LEMMA OccurrencesFew ==
    ASSUME NEW S, IsFiniteSet(S)
    PROVE  IsFiniteSet(Occurrences(S)) /\ IsFiniteSet(Terms(S))
  <1>1. IsFiniteSet({"s", "p", "o"})
    <2>1. IsFiniteSet({"s"}) /\ IsFiniteSet({"p"}) /\ IsFiniteSet({"o"})
      BY FS_Singleton
    <2>2. IsFiniteSet({"s"} \union {"p"})
      BY <2>1, FS_Union
    <2>3. IsFiniteSet(({"s"} \union {"p"}) \union {"o"})
      BY <2>1, <2>2, FS_Union
    <2>4. {"s", "p", "o"} = ({"s"} \union {"p"}) \union {"o"}
      OBVIOUS
    <2> QED
      BY <2>3, <2>4
  <1>2. IsFiniteSet(S \X {"s", "p", "o"})
    BY <1>1, FS_Product
  <1>3. IsFiniteSet(Occurrences(S))
    BY <1>2, FinitePart DEF Occurrences
  <1> QED
    BY <1>3, TermsFew DEF Terms

\* The terms of one statement are among those of a set that holds it.
LEMMA TermsOfOne ==
    ASSUME NEW S, NEW st \in S
    PROVE  Terms({st}) \subseteq Terms(S)
  BY DEF Terms, TermsAt, Occurrences

\* What an indexing brings in fits, however often the list names a term.
LEMMA IndexingFits ==
    ASSUME NEW S, IsFiniteSet(S), NEW held, NEW length \in Nat, length <= Cap, NEW got \in Indexings(S, held, length)
    PROVE  /\ IsFiniteSet(got.terms) /\ Cardinality(got.terms) \in Nat /\ got.times \in Nat
           /\ Cardinality(got.terms) <= got.times /\ length + got.times <= Cap
           /\ got.terms \subseteq Terms(S)
  <1>1. Cap \in Nat /\ Room(length) \in Nat /\ length + Room(length) = Cap
    BY GatewayAssumption DEF Room
  <1>2. PICK taken \in Fitting(S, held, length) :
            \/ got = Entering(TermsAt(taken), Cardinality(taken))
            \/ got = Entering({}, 0)
            \/ \E some \in SUBSET TermsAt(taken) : got = Entering(some, Cardinality(some))
    BY DEF Indexings
  <1>3. taken \subseteq Occurrences(S) /\ Cardinality(taken) <= Room(length)
    <2>1. PICK new \in SUBSET Occurrences(S) :
              taken \in IF Cardinality(new) <= Room(length) THEN {new} ELSE kSubset(Room(length), new)
      BY DEF Fitting
    <2>2. CASE Cardinality(new) <= Room(length)
      BY <2>1, <2>2
    <2>3. CASE ~(Cardinality(new) <= Room(length))
      BY <1>1, <2>1, <2>3 DEF kSubset
    <2> QED
      BY <2>2, <2>3
  <1>4. IsFiniteSet(taken)
    BY <1>3, OccurrencesFew, FinitePart
  <1>5. /\ IsFiniteSet(TermsAt(taken)) /\ Cardinality(TermsAt(taken)) <= Cardinality(taken)
        /\ Cardinality(TermsAt(taken)) \in Nat /\ Cardinality(taken) \in Nat
    BY <1>4, TermsFew
  <1>6. TermsAt(taken) \subseteq Terms(S)
    BY <1>3 DEF Terms, TermsAt
  <1>7. CASE got = Entering(TermsAt(taken), Cardinality(taken))
    BY <1>1, <1>3, <1>5, <1>6, <1>7 DEF Entering
  <1>8. CASE got = Entering({}, 0)
    BY <1>1, <1>8, FS_EmptySet DEF Entering
  <1>9. CASE \E some \in SUBSET TermsAt(taken) : got = Entering(some, Cardinality(some))
    <2>1. PICK some \in SUBSET TermsAt(taken) : got = Entering(some, Cardinality(some))
      BY <1>9
    <2>2. IsFiniteSet(some) /\ Cardinality(some) \in Nat /\ Cardinality(some) <= Cardinality(TermsAt(taken))
      BY <1>5, FinitePart
    <2> QED
      BY <1>1, <1>3, <1>5, <1>6, <2>1, <2>2 DEF Entering
  <1> QED
    BY <1>2, <1>7, <1>8, <1>9

\* An index that holds no more than it counts, and counts within its cap, stays so.
LEMMA HoldsFits ==
    ASSUME NEW terms, IsFiniteSet(terms), NEW count \in Nat, Cardinality(terms) <= count, count <= Cap, Holds(terms, count)
    PROVE  indexed' = terms /\ IsFiniteSet(indexed') /\ counted' \in Nat /\ CapHolds'
  <1>1. Cardinality(terms) \in Nat /\ Cap \in Nat
    BY FS_CardinalityType, GatewayAssumption
  <1> QED
    BY <1>1 DEF Holds, CapHolds

\* What an update inserts is finite, with the documents it loads.
LEMMA InsertedFinite ==
    ASSUME NEW sent \in Traffic, NEW unreachable
    PROVE  IsFiniteSet(Inserted(RewriteRemoteLoads(sent.ops, unreachable)))
  <1> DEFINE ops == sent.ops
             loads == RewriteRemoteLoads(ops, unreachable)
             chosen == {j \in DOMAIN loads : loads[j].op = "insert"}
             said == [i \in chosen |-> loads[i].statements]
             family == {loads[i].statements : i \in chosen}
  <1>1. DOMAIN ops = 1..Len(ops) /\ Len(ops) \in Nat /\ \A i \in DOMAIN ops : IsFiniteSet(ops[i].statements)
    BY GatewayAssumption DEF IsRequest
  <1>2. DOMAIN loads = DOMAIN ops
    BY DEF RewriteRemoteLoads
  <1>3. ASSUME NEW i \in DOMAIN ops PROVE IsFiniteSet(loads[i].statements)
    <2>1. CASE ~IsLoad(ops[i])
      <3>1. loads[i] = ops[i]
        BY <1>3, <2>1 DEF RewriteRemoteLoads
      <3> QED
        BY <1>1, <1>3, <3>1
    <2>2. CASE IsLoad(ops[i]) /\ ops[i].source \in unreachable
      <3>1. loads[i].statements = {}
        BY <1>3, <2>2 DEF RewriteRemoteLoads
      <3> QED
        BY <3>1, FS_EmptySet
    <2>3. CASE IsLoad(ops[i]) /\ ops[i].source \notin unreachable
      <3> DEFINE op == ops[i]
                 placed == [st \in op.statements |-> [st EXCEPT !.graph = IF @ = DefaultGraph THEN op.into ELSE @]]
      <3>1. loads[i].statements = LoadedInto(op)
        BY <1>3, <2>3 DEF RewriteRemoteLoads
      <3>2. placed \in Surjection(op.statements, LoadedInto(op))
        BY DEF Surjection, LoadedInto
      <3> HIDE DEF placed, op
      <3>3. IsFiniteSet(op.statements)
        BY <1>1, <1>3 DEF op
      <3> QED
        BY <3>1, <3>2, <3>3, FS_Surjection
    <2> QED
      BY <2>1, <2>2, <2>3
  <1> HIDE DEF loads, ops
  <1>4. IsFiniteSet(1..Len(ops))
    <2>1. 1 \in Int /\ Len(ops) \in Int
      BY <1>1
    <2> QED
      BY <2>1, FS_Interval
  <1>5. IsFiniteSet(chosen)
    BY <1>1, <1>2, <1>4, FinitePart
  <1>6. said \in Surjection(chosen, family)
    BY DEF Surjection
  <1>7. \A T \in family : IsFiniteSet(T)
    BY <1>2, <1>3
  <1>8. IsFiniteSet(family)
    <2> HIDE DEF said, family, chosen
    <2> QED
      BY <1>5, <1>6, FS_Surjection
  <1>9. IsFiniteSet(UNION family)
    <2> HIDE DEF family
    <2> QED
      BY <1>7, <1>8, FS_UNION
  <1> QED
    BY <1>9 DEF Inserted, loads, ops

\* What an ingest puts is finite, and when tenants are kept apart it is its tenant's.
LEMMA PlacedFits ==
    ASSUME NEW sent \in Traffic, ~Foreign(sent)
    PROVE  IsFiniteSet(Placed(sent)) /\ (enforced => \A st \in Placed(sent) : IsOwned(Tenant(sent), st.graph))
  <1> DEFINE put(st) == [st EXCEPT !.graph = IF @ = DefaultGraph THEN TargetGraph(sent) ELSE @]
             placed == [st \in sent.statements |-> put(st)]
  <1>1. /\ DefaultGraph \notin sent.graph /\ IsFiniteSet(sent.statements)
        /\ \A st \in sent.statements : st = [graph |-> st.graph, triple |-> st.triple]
    BY GatewayAssumption DEF IsRequest
  <1>2. placed \in Surjection(sent.statements, Placed(sent))
    BY DEF Surjection, Placed
  <1>3. IsFiniteSet(Placed(sent))
    <2> HIDE DEF placed
    <2> QED
      BY <1>1, <1>2, FS_Surjection
  <1>4. ASSUME enforced, NEW st \in sent.statements PROVE IsOwned(Tenant(sent), put(st).graph)
    <2>1. put(st).graph = IF st.graph = DefaultGraph THEN TargetGraph(sent) ELSE st.graph
      <3>1. "graph" \in DOMAIN st
        BY <1>1, <1>4
      <3> QED
        BY <3>1
    <2> HIDE DEF put
    <2>2. CASE st.graph # DefaultGraph
      BY <1>4, <2>1, <2>2 DEF Foreign
    <2>3. CASE st.graph = DefaultGraph /\ sent.graph # {}
      <3>1. TargetGraph(sent) \in sent.graph
        BY <2>3 DEF TargetGraph
      <3> QED
        BY <1>1, <1>4, <2>1, <2>3, <3>1 DEF Foreign
    <2>4. CASE st.graph = DefaultGraph /\ sent.graph = {}
      BY <1>4, <2>1, <2>4 DEF TargetGraph, TenantGraph, IsOwned
    <2> QED
      BY <2>2, <2>3, <2>4
  <1> QED
    BY <1>3, <1>4 DEF Placed

-----------------------------------------------------------------------------
(* The steps of one thread.                                                *)

\* A call is told by its pc.
LEMMA CallTold ==
    ASSUME NEW r, IsCall(r)
    PROVE  /\ r # Resting <=> r.pc # "resting"
           /\ r.pc # "resting" => r.request \in Traffic
           /\ r.pc \in {"arrived", "working"} => r = [pc |-> r.pc, request |-> r.request]
           /\ r.pc = "answering" => r.status \in Codes
           /\ r.pc \in Committing => IsFiniteSet(r.put)
           /\ r.pc = "half read" => r = [pc |-> "half read", request |-> r.request, put |-> r.put, present |-> r.present]
           /\ r.pc \in {"half read", "read"} => IsFiniteSet(r.present)
  <1> DEFINE waits == r.pc \in {"arrived", "working"} /\ r = [pc |-> r.pc, request |-> r.request]
             answers == r.pc = "answering" /\ r.status \in Codes
             commits == r.pc = "committed" /\ IsFiniteSet(r.put)
             reads == /\ r.pc \in {"half read", "read"} /\ r = [pc |-> r.pc, request |-> r.request, put |-> r.put, present |-> r.present]
                      /\ IsFiniteSet(r.put) /\ IsFiniteSet(r.present)
  <1>1. r = Resting \/ (r.request \in Traffic /\ (waits \/ answers \/ commits \/ reads))
    BY Zenon DEF IsCall
  <1>2. Resting.pc = "resting"
    BY DEF Resting
  <1>3. CASE r = Resting
    BY <1>2, <1>3 DEF Committing
  <1>4. CASE r # Resting /\ r.request \in Traffic /\ waits
    BY <1>4 DEF Committing
  <1>5. CASE r # Resting /\ r.request \in Traffic /\ answers
    BY <1>5 DEF Committing
  <1>6. CASE r # Resting /\ r.request \in Traffic /\ commits
    BY <1>6 DEF Committing
  <1>7. CASE r # Resting /\ r.request \in Traffic /\ reads
    BY <1>7 DEF Committing
  <1> QED
    BY <1>1, <1>3, <1>4, <1>5, <1>6, <1>7

\* What the handlers make of a call.
Waiting(pc, sent) == [pc |-> pc, request |-> sent]
Answering(sent, status) == [pc |-> "answering", request |-> sent, status |-> status]
Written(sent, put) == [pc |-> "committed", request |-> sent, put |-> put]
Rereading(pc, sent, put, present) == [pc |-> pc, request |-> sent, put |-> put, present |-> present]

\* Each is a call.
LEMMA WaitingFits ==
    ASSUME NEW sent \in Traffic, NEW pc \in {"arrived", "working"}, NEW r, r = Waiting(pc, sent)
    PROVE  IsCall(r) /\ r.pc = pc /\ r.request = sent /\ r.pc \notin Committing /\ r # Resting
  BY DEF Waiting, IsCall, Committing, Resting

\* A call that answers.
LEMMA AnsweringFits ==
    ASSUME NEW sent \in Traffic, NEW status \in Codes, NEW r, r = Answering(sent, status)
    PROVE  IsCall(r) /\ r.pc = "answering" /\ r.request = sent /\ r.status = status /\ r.pc \notin Committing /\ r # Resting
  BY DEF Answering, IsCall, Committing, Resting

\* A call that has committed.
LEMMA WritingFits ==
    ASSUME NEW sent \in Traffic, NEW put, IsFiniteSet(put), NEW r, r = Written(sent, put)
    PROVE  IsCall(r) /\ r.pc = "committed" /\ r.request = sent /\ r.put = put /\ r # Resting
  BY DEF Written, IsCall, Resting

CanReread(pc, sent, put, present) ==
    sent \in Traffic /\ pc \in {"half read", "read"} /\ IsFiniteSet(put) /\ IsFiniteSet(present)
\* A call that reconciles.
LEMMA RereadingFits ==
    ASSUME NEW sent, NEW pc, NEW put, NEW present, CanReread(pc, sent, put, present), NEW r, r = Rereading(pc, sent, put, present)
    PROVE  IsCall(r) /\ r.pc = pc /\ r.request = sent /\ r.put = put /\ r.present = present /\ r # Resting
  BY DEF Rereading, CanReread, IsCall, Resting

\* A thread at rest.
LEMMA RestingFits == IsCall(Resting) /\ Resting.pc = "resting" /\ Resting.pc \notin Committing
  BY DEF IsCall, Resting, Committing

\* A thread goes on; the others stay where they are.
OneGoes(c, r) == call' = [call EXCEPT ![c] = r]
\* A step of one thread leaves the others where they are.
LEMMA OthersStay ==
    ASSUME GatewayTypes, NEW c \in Threads, NEW r, IsCall(r), OneGoes(c, r)
    PROVE  /\ call' = [d \in Threads |-> call'[d]] /\ \A d \in Threads : IsCall(call'[d])
           /\ call'[c] = r /\ \A d \in Threads \ {c} : call'[d] = call[d]
  <1>1. call = [d \in Threads |-> call[d]] /\ \A d \in Threads : IsCall(call[d])
    BY DEF GatewayTypes
  <1>2. call' = [d \in Threads |-> IF d = c THEN r ELSE call[d]]
    BY <1>1 DEF OneGoes
  <1>3. call'[c] = r /\ \A d \in Threads \ {c} : call'[d] = call[d]
    BY <1>2
  <1>4. call' = [d \in Threads |-> call'[d]]
    BY <1>2
  <1>5. \A d \in Threads : IsCall(call'[d])
    BY <1>1, <1>3
  <1> QED
    BY <1>3, <1>4, <1>5

\* A step of a call that has nothing committed, before and after.
Quiet(c, r) ==
    /\ OneGoes(c, r) /\ IsCall(r)
    /\ r.pc \notin Committing /\ call[c].pc \notin Committing
    /\ UNCHANGED <<enforced, store, holder, left>>
    /\ indexed \subseteq indexed' /\ IsFiniteSet(indexed') /\ counted' \in Nat /\ CapHolds'

\* A step that neither commits nor reconciles keeps the store, the index and the lock in agreement.
LEMMA QuietKeeps ==
    ASSUME GatewayInv, NEW c \in Threads, NEW r, Quiet(c, r)
    PROVE  GatewayTypes' /\ LockHeld' /\ ReadCovers' /\ IndexComplete' /\ CapHolds' /\ IngestConfined'
  <1>1. /\ IsCall(r) /\ OneGoes(c, r) /\ r.pc \notin Committing /\ call[c].pc \notin Committing
        /\ UNCHANGED <<enforced, store, holder, left>>
        /\ indexed \subseteq indexed' /\ IsFiniteSet(indexed') /\ counted' \in Nat /\ CapHolds'
    BY DEF Quiet
  <1>2. GatewayTypes /\ LockHeld /\ ReadCovers /\ IndexComplete /\ IngestConfined
    BY DEF GatewayInv
  <1>3. /\ call' = [d \in Threads |-> call'[d]] /\ \A d \in Threads : IsCall(call'[d])
        /\ call'[c] = r /\ \A d \in Threads \ {c} : call'[d] = call[d]
    BY <1>1, <1>2, OthersStay
  <1>4. GatewayTypes' /\ CapHolds'
    BY <1>1, <1>2, <1>3 DEF GatewayTypes, CapHolds
  <1>5. LockHeld'
    <2>1. ASSUME NEW d \in Threads PROVE call'[d].pc \in {"half read", "read"} <=> holder' = d
      <3>1. CASE d = c
        BY <1>1, <1>2, <1>3, <3>1 DEF LockHeld, Committing
      <3>2. CASE d # c
        BY <1>1, <1>2, <1>3, <3>2 DEF LockHeld
      <3> QED
        BY <3>1, <3>2
    <2> QED
      BY <2>1 DEF LockHeld
  <1>6. \A d, st : d \in Threads => (PendingAt(d, st)' <=> PendingAt(d, st))
    <2>1. ASSUME NEW d \in Threads, NEW st PROVE PendingAt(d, st)' <=> PendingAt(d, st)
      <3>1. CASE d = c
        BY <1>1, <1>3, <3>1 DEF PendingAt
      <3>2. CASE d # c
        BY <1>3, <3>2 DEF PendingAt
      <3> QED
        BY <3>1, <3>2
    <2> QED
      BY <2>1
  <1>7. ReadCovers'
    <2>1. SUFFICES ASSUME NEW d \in Threads,
                          NEW st \in IF call'[d].pc = "read" THEN store' ELSE IF call'[d].pc = "half read" THEN InDefault(store') ELSE {}
                   PROVE  st \in call'[d].present \/ \E e \in Threads \ {d} : PendingAt(e, st)'
      BY DEF ReadCovers, InDefault
    <2>2. d # c
      BY <1>1, <1>3, <2>1 DEF Committing
    <2>3. call'[d] = call[d] /\ store' = store
      BY <1>1, <1>3, <2>2
    <2>4. st \in call[d].present \/ \E e \in Threads \ {d} : PendingAt(e, st)
      BY <1>2, <2>1, <2>3 DEF ReadCovers
    <2> QED
      BY <1>6, <2>3, <2>4
  <1>8. IndexComplete'
    <2>1. \A st : Pending(st)' <=> Pending(st)
      BY <1>6 DEF Pending, PendingAt, Committing
    <2> QED
      BY <1>1, <1>2, <2>1 DEF IndexComplete
  <1>9. IngestConfined'
    <2>1. SUFFICES ASSUME enforced, NEW d \in Threads, call'[d].pc = "committed", call'[d].request.kind = "ingest", NEW st \in call'[d].put
                   PROVE  IsOwned(Tenant(call'[d].request), st.graph)
      BY <1>1 DEF IngestConfined, At
    <2>2. d # c
      BY <1>1, <1>3, <2>1 DEF Committing
    <2>3. call'[d] = call[d]
      BY <1>3, <2>2
    <2> QED
      BY <1>2, <2>1, <2>3 DEF IngestConfined, At
  <1> QED
    BY <1>4, <1>5, <1>7, <1>8, <1>9

\* Counting the requests under way.
LEMMA BusyCount ==
    ASSUME GatewayTypes, NEW c \in Threads, NEW r, IsCall(r), OneGoes(c, r)
    PROVE  /\ Cardinality(BusyThreads) \in Nat
           /\ call[c] # Resting /\ r # Resting => Cardinality(BusyThreads') = Cardinality(BusyThreads)
           /\ call[c] = Resting /\ r # Resting => Cardinality(BusyThreads') = Cardinality(BusyThreads) + 1
           /\ call[c] # Resting /\ r = Resting => Cardinality(BusyThreads') = Cardinality(BusyThreads) - 1
  <1>1. call'[c] = r /\ \A d \in Threads \ {c} : call'[d] = call[d]
    BY OthersStay
  <1>2. IsFiniteSet(BusyThreads) /\ Cardinality(BusyThreads) \in Nat
    BY GatewayAssumption, FinitePart DEF BusyThreads
  <1>3. call[c] # Resting /\ r # Resting => BusyThreads' = BusyThreads
    BY <1>1 DEF BusyThreads
  <1>4. call[c] = Resting /\ r # Resting => BusyThreads' = BusyThreads \union {c} /\ c \notin BusyThreads
    BY <1>1 DEF BusyThreads
  <1>5. call[c] # Resting /\ r = Resting => BusyThreads' = BusyThreads \ {c} /\ c \in BusyThreads
    BY <1>1 DEF BusyThreads
  <1>6. Cardinality(BusyThreads \union {c}) = IF c \in BusyThreads THEN Cardinality(BusyThreads) ELSE Cardinality(BusyThreads) + 1
    BY <1>2, FS_AddElement
  <1>7. Cardinality(BusyThreads \ {c}) = IF c \in BusyThreads THEN Cardinality(BusyThreads) - 1 ELSE Cardinality(BusyThreads)
    BY <1>2, FS_RemoveElement
  <1> QED
    BY <1>2, <1>3, <1>4, <1>5, <1>6, <1>7

\* A call goes on without an answer.
Unanswered == metrics' \in Counters /\ metrics'.requests = metrics.requests /\ metrics'.answered = metrics.answered
              /\ metrics'.statuses = metrics.statuses /\ options' = options

\* A request that stays under way changes no sum.
LEMMA CountersKept ==
    ASSUME GatewayInv, NEW c \in Threads, NEW r, IsCall(r), OneGoes(c, r), call[c] # Resting, r # Resting, Unanswered
    PROVE  CountersExact'
  <1>1. GatewayTypes /\ CountersExact
    BY DEF GatewayInv
  <1>2. Cardinality(BusyThreads') = Cardinality(BusyThreads)
    BY <1>1, BusyCount
  <1> QED
    BY <1>1, <1>2 DEF CountersExact, Unanswered

\* Counting an audited request keeps the counters.
LEMMA CountingAudited ==
    ASSUME metrics \in Counters, Count("audited"), options' = options
    PROVE  Unanswered
  BY DEF Counters, Count, Unanswered

\* So does counting nothing.
LEMMA CountingNothing ==
    ASSUME metrics \in Counters, UNCHANGED <<metrics, options>>
    PROVE  Unanswered
  BY DEF Unanswered

\* An answer that leaves store and index alone.
LEMMA AnswersKeepsInv ==
    ASSUME GatewayInv, NEW c \in Threads, call[c].pc \in {"arrived", "working"}, NEW status \in Codes, Answers(c, status),
           Stays, Unindexed, UNCHANGED store, Unanswered
    PROVE  GatewayInv'
  <1>1. PICK r : r = Answering(call[c].request, status)
    OBVIOUS
  <1>2. IsCall(call[c]) /\ GatewayTypes /\ CapHolds
    BY DEF GatewayInv, GatewayTypes
  <1>3. call[c].request \in Traffic /\ call[c] # Resting /\ call[c].pc \notin Committing
    BY <1>2, CallTold DEF Committing
  <1>4. IsCall(r) /\ r.pc \notin Committing /\ r # Resting
    BY <1>1, <1>3, AnsweringFits
  <1>5. OneGoes(c, r)
    BY <1>1 DEF Answers, OneGoes, Answering
  <1>6. Quiet(c, r)
    BY <1>2, <1>3, <1>4, <1>5 DEF Quiet, Stays, Unindexed, GatewayTypes, CapHolds
  <1>7. CountersExact'
    BY <1>3, <1>4, <1>5, CountersKept
  <1> QED
    BY <1>6, <1>7, QuietKeeps DEF GatewayInv

\* The counters are numbers.
LEMMA CountersTyped ==
    ASSUME GatewayInv
    PROVE  metrics \in Counters /\ options \in Nat
  BY DEF GatewayInv, CountersExact

\* A request arrives and is counted.
LEMMA ArriveKeepsInv ==
    ASSUME GatewayInv, NEW c \in Threads, NEW sent \in Traffic, Arrive(c, sent)
    PROVE  GatewayInv'
  <1>1. GatewayTypes /\ CountersExact /\ CapHolds /\ metrics \in Counters /\ options \in Nat
    BY CountersTyped DEF GatewayInv
  <1>2. /\ metrics' = [metrics EXCEPT !["requests"] = @ + 1] /\ Unindexed /\ UNCHANGED <<enforced, persistent, store, boots>>
        /\ call[c] = Resting
    BY DEF Arrive, Count
  <1>3. /\ metrics' \in Counters /\ metrics'.requests = metrics.requests + 1 /\ metrics'.answered = metrics.answered
        /\ metrics'.statuses = metrics.statuses
    BY <1>1, <1>2 DEF Counters
  <1>4. CASE sent.kind = "options"
    <2>1. options' = options + 1 /\ call' = call
      BY <1>4 DEF Arrive
    <2>2. call' = [call EXCEPT ![c] = Resting]
      BY <1>1, <1>2, <2>1 DEF GatewayTypes
    <2>3. Quiet(c, Resting)
      BY <1>1, <1>2, <2>2, RestingFits DEF Quiet, OneGoes, Unindexed, GatewayTypes, CapHolds
    <2>4. BusyThreads' = BusyThreads /\ Cardinality(BusyThreads) \in Nat
      BY <1>1, <2>1, <2>2, RestingFits, BusyCount DEF BusyThreads, OneGoes
    <2>5. CountersExact'
      BY <1>1, <1>3, <2>1, <2>4 DEF CountersExact, Counters
    <2> QED
      BY <2>3, <2>5, QuietKeeps DEF GatewayInv
  <1>5. CASE sent.kind # "options"
    <2>1. PICK r : r = Waiting("arrived", sent)
      OBVIOUS
    <2>2. OneGoes(c, r) /\ options' = options
      BY <1>5, <2>1 DEF Arrive, Waiting, OneGoes
    <2>3. IsCall(r) /\ r.pc \notin Committing /\ r # Resting
      BY <2>1, WaitingFits
    <2>4. Quiet(c, r)
      BY <1>1, <1>2, <2>2, <2>3, RestingFits DEF Quiet, Unindexed, GatewayTypes, CapHolds
    <2>5. Cardinality(BusyThreads') = Cardinality(BusyThreads) + 1 /\ Cardinality(BusyThreads) \in Nat
      BY <1>1, <1>2, <2>2, <2>3, BusyCount
    <2>6. CountersExact'
      BY <1>1, <1>3, <2>2, <2>5 DEF CountersExact, Counters
    <2> QED
      BY <2>4, <2>6, QuietKeeps DEF GatewayInv
  <1> QED
    BY <1>4, <1>5

\* A request without credentials is answered.
LEMMA UnauthenticatedKeepsInv ==
    ASSUME GatewayInv, NEW c \in Threads, Unauthenticated(c)
    PROVE  GatewayInv'
  <1>1. PICK status \in Codes : Answers(c, status)
    BY DEF Unauthenticated, StatusOf, Codes
  <1>2. Unanswered
    BY CountersTyped, CountingNothing DEF Unauthenticated, Stays
  <1> QED
    BY <1>1, <1>2, AnswersKeepsInv DEF Unauthenticated, At

\* A request is permitted or refused.
LEMMA AuthorizeKeepsInv ==
    ASSUME GatewayInv, NEW c \in Threads, Authorize(c)
    PROVE  GatewayInv'
  <1>1. /\ call[c].pc = "arrived" /\ Stays /\ Unindexed /\ UNCHANGED store /\ metrics \in Counters /\ options' = options
        /\ GatewayTypes /\ CapHolds
    BY CountersTyped DEF Authorize, At, Stays, GatewayInv
  <1>2. CASE Permitted(call[c].request)
    <2>1. IsCall(call[c])
      BY <1>1 DEF GatewayTypes
    <2>2. call[c] = Waiting("arrived", call[c].request) /\ call[c].request \in Traffic /\ call[c] # Resting /\ call[c].pc \notin Committing
      BY <1>1, <2>1, CallTold DEF Waiting, Committing
    <2>3. PICK r : r = Waiting("working", call[c].request)
      OBVIOUS
    <2>4. [call[c] EXCEPT !.pc = "working"] = r
      BY <2>2, <2>3 DEF Waiting
    <2>5. OneGoes(c, r)
      BY <1>2, <2>4 DEF Authorize, Goes, OneGoes
    <2>6. IsCall(r) /\ r.pc \notin Committing /\ r # Resting
      BY <2>2, <2>3, WaitingFits
    <2>7. Quiet(c, r)
      BY <1>1, <2>2, <2>5, <2>6 DEF Quiet, Stays, Unindexed, GatewayTypes, CapHolds
    <2>8. Unanswered
      <3>1. PICK more : more = Counted(call[c].request) \union {"audited"}
        OBVIOUS
      <3>2. more \subseteq {"sparql", "ingests", "audited"}
        BY <3>1 DEF Counted
      <3>3. metrics' = [name \in DOMAIN metrics |-> IF name \in more THEN metrics[name] + 1 ELSE metrics[name]]
        BY <1>2, <3>1 DEF Authorize
      <3> QED
        BY <1>1, <3>2, <3>3 DEF Counters, Unanswered
    <2>9. CountersExact'
      BY <2>2, <2>5, <2>6, <2>8, CountersKept
    <2> QED
      BY <2>7, <2>9, QuietKeeps DEF GatewayInv
  <1>3. CASE ~Permitted(call[c].request)
    <2>1. Answers(c, 403) /\ Unanswered /\ 403 \in Codes
      BY <1>1, <1>3, CountingAudited DEF Authorize, Codes
    <2> QED
      BY <1>1, <2>1, AnswersKeepsInv
  <1> QED
    BY <1>2, <1>3

\* An answer is counted once.
LEMMA FinishKeepsInv ==
    ASSUME GatewayInv, NEW c \in Threads, Finish(c)
    PROVE  GatewayInv'
  <1>1. /\ call[c].pc = "answering" /\ Stays /\ Unindexed /\ UNCHANGED store /\ OneGoes(c, Resting)
        /\ GatewayTypes /\ CapHolds /\ CountersExact /\ metrics \in Counters /\ options \in Nat /\ options' = options
    BY CountersTyped DEF Finish, At, Stays, GatewayInv, OneGoes
  <1>2. IsCall(call[c])
    BY <1>1 DEF GatewayTypes
  <1>3. PICK status \in Codes : status = call[c].status
    BY <1>1, <1>2, CallTold
  <1>4. call[c] # Resting /\ call[c].pc \notin Committing
    BY <1>1, <1>2, CallTold DEF Committing
  <1>5. Quiet(c, Resting)
    BY <1>1, <1>4, RestingFits DEF Quiet, Stays, Unindexed, GatewayTypes, CapHolds
  <1>6. Cardinality(BusyThreads') = Cardinality(BusyThreads) - 1 /\ Cardinality(BusyThreads) \in Nat
    BY <1>1, <1>4, RestingFits, BusyCount
  <1>7. PICK count : count = metrics.statuses
    OBVIOUS
  <1>8. count \in [Codes -> Nat]
    BY <1>1, <1>7 DEF Counters
  <1>9. /\ metrics' \in Counters /\ metrics'.requests = metrics.requests /\ metrics'.answered = metrics.answered + 1
        /\ metrics'.statuses = [count EXCEPT ![status] = @ + 1]
    <2>1. metrics' = AnsweredAs(call[c].request, status, metrics)
      BY <1>3 DEF Finish
    <2>2. PICK e \in Nat : metrics' = [metrics EXCEPT !.answered = @ + 1, !.statuses[status] = @ + 1, !.errors = e]
      <3>1. metrics.errors \in Nat
        BY <1>1 DEF Counters
      <3>2. PICK e : e = IF call[c].request.kind \in {"query", "update"} /\ status >= 400 THEN metrics.errors + 1 ELSE metrics.errors
        OBVIOUS
      <3>3. e \in Nat
        BY <3>1, <3>2
      <3>4. metrics' = [metrics EXCEPT !.answered = @ + 1, !.statuses[status] = @ + 1, !.errors = e]
        BY <1>1, <2>1, <3>2 DEF AnsweredAs, Counters
      <3> QED
        BY <3>3, <3>4
    <2>3. metrics' = [metrics EXCEPT !.answered = @ + 1, !.statuses = [count EXCEPT ![status] = @ + 1], !.errors = e]
      BY <1>7, <2>2
    <2>4. PICK later \in [Codes -> Nat] : later = [count EXCEPT ![status] = @ + 1]
      <3>1. count[status] \in Nat
        BY <1>8
      <3>2. [count EXCEPT ![status] = @ + 1] \in [Codes -> Nat]
        BY <1>8, <3>1
      <3> QED
        BY <3>2, Zenon
    <2>5. PICK answered \in Nat : answered = metrics.answered + 1
      BY <1>1 DEF Counters
    <2>6. metrics' = [metrics EXCEPT !.answered = answered, !.statuses = later, !.errors = e]
      BY <2>3, <2>4, <2>5
    <2>7. metrics' \in Counters /\ metrics'.requests = metrics.requests /\ metrics'.answered = answered /\ metrics'.statuses = later
      BY <1>1, <2>6 DEF Counters
    <2> QED
      BY <2>4, <2>5, <2>7
  <1>10. metrics.answered = count[200] + count[400] + count[401] + count[403] + count[500]
    BY <1>1, <1>7 DEF CountersExact
  <1>11. LET later == metrics'.statuses IN metrics'.answered = later[200] + later[400] + later[401] + later[403] + later[500]
    <2>1. PICK later : later = [count EXCEPT ![status] = @ + 1]
      OBVIOUS
    <2>2. later[200] + later[400] + later[401] + later[403] + later[500] = count[200] + count[400] + count[401] + count[403] + count[500] + 1
      BY <1>8, <2>1 DEF Codes
    <2> QED
      BY <1>9, <1>10, <2>1, <2>2
  <1>12. metrics'.requests = metrics'.answered + options' + Cardinality(BusyThreads')
    BY <1>1, <1>6, <1>9 DEF CountersExact, Counters
  <1>13. CountersExact'
    BY <1>1, <1>9, <1>11, <1>12 DEF CountersExact
  <1> QED
    BY <1>5, <1>13, QuietKeeps DEF GatewayInv

\* The requests that end without a commit.
LEMMA RefusalsKeepInv ==
    ASSUME GatewayInv, NEW c \in Threads,
           Fails(c) \/ StorageFails(c) \/ Query(c) \/ IngestForbidden(c) \/ (\E unreachable : RemoteLoadFails(c, unreachable))
    PROVE  GatewayInv'
  <1>1. metrics \in Counters /\ 500 \in Codes /\ 403 \in Codes /\ 200 \in Codes
    BY CountersTyped DEF Codes
  <1>2. UNCHANGED <<metrics, options>> => Unanswered
    BY <1>1, CountingNothing
  <1>3. CASE Fails(c)
    <2>1. IsCall(call[c]) /\ call[c].pc = "working"
      BY <1>3 DEF GatewayInv, GatewayTypes, Fails, At
    <2>2. call[c].request \in Traffic
      BY <2>1, CallTold
    <2>3. call[c].request.fault \in Codes
      BY <1>3, <2>2, GatewayAssumption DEF IsRequest, Fails
    <2> QED
      BY <1>2, <1>3, <2>3, AnswersKeepsInv DEF Fails, At, Stays
  <1>4. CASE StorageFails(c)
    BY <1>1, <1>2, <1>4, AnswersKeepsInv DEF StorageFails, Works, At, Stays
  <1>5. CASE Query(c)
    <2>1. Unanswered
      BY <1>1, <1>5, CountingAudited DEF Query, Stays
    <2> QED
      BY <1>1, <1>5, <2>1, AnswersKeepsInv DEF Query, Works, At
  <1>6. CASE IngestForbidden(c)
    BY <1>1, <1>2, <1>6, AnswersKeepsInv DEF IngestForbidden, Works, At, Stays
  <1>7. CASE \E unreachable : RemoteLoadFails(c, unreachable)
    BY <1>1, <1>2, <1>7, AnswersKeepsInv DEF RemoteLoadFails, Works, At, Stays
  <1> QED
    BY <1>3, <1>4, <1>5, <1>6, <1>7

\* A commit: what is new in the store is the commit's own, which is not reconciled yet.
LEMMA CommittedKeepsInv ==
    ASSUME GatewayInv, NEW c \in Threads, call[c].pc = "working", NEW new, NEW put, Committed(c, new, put), Unindexed,
           IsFiniteSet(put), new \subseteq store \union put,
           enforced /\ call[c].request.kind = "ingest" => \A st \in put : IsOwned(Tenant(call[c].request), st.graph)
    PROVE  GatewayInv'
  <1>1. PICK r : r = Written(call[c].request, put)
    OBVIOUS
  <1>2. /\ GatewayTypes /\ LockHeld /\ ReadCovers /\ CountersExact /\ IndexComplete /\ CapHolds /\ IngestConfined
        /\ metrics \in Counters /\ IsCall(call[c])
    BY CountersTyped DEF GatewayInv, GatewayTypes
  <1>3. call[c].request \in Traffic /\ call[c] # Resting
    BY <1>2, CallTold
  <1>4. IsCall(r) /\ r.pc = "committed" /\ r.put = put /\ r.request = call[c].request /\ r # Resting
    BY <1>1, <1>3, WritingFits
  <1>5. /\ OneGoes(c, r) /\ store' = new
        /\ UNCHANGED <<enforced, metrics, options, indexed, counted, holder, left>>
    BY <1>1 DEF Committed, OneGoes, Written, Stays, Unindexed
  <1>6. /\ call' = [d \in Threads |-> call'[d]] /\ \A d \in Threads : IsCall(call'[d])
        /\ call'[c] = r /\ \A d \in Threads \ {c} : call'[d] = call[d]
    BY <1>2, <1>4, <1>5, OthersStay
  <1>7. GatewayTypes' /\ CapHolds'
    <2>1. IsFiniteSet(store \union put)
      BY <1>2, UnionBound DEF GatewayTypes
    <2>2. IsFiniteSet(new)
      BY <2>1, FinitePart
    <2> QED
      BY <1>2, <1>5, <1>6, <2>2 DEF GatewayTypes, CapHolds
  <1>8. LockHeld'
    <2>1. ASSUME NEW d \in Threads PROVE call'[d].pc \in {"half read", "read"} <=> holder' = d
      <3>1. CASE d = c
        BY <1>2, <1>4, <1>5, <1>6, <3>1 DEF LockHeld
      <3>2. CASE d # c
        BY <1>2, <1>5, <1>6, <3>2 DEF LockHeld
      <3> QED
        BY <3>1, <3>2
    <2> QED
      BY <2>1 DEF LockHeld
  <1>9. \A st \in put : PendingAt(c, st)'
    BY <1>4, <1>6 DEF PendingAt, Committing
  <1>10. \A d, st : d \in Threads /\ PendingAt(d, st) => d # c /\ PendingAt(d, st)'
    <2>1. ASSUME NEW d \in Threads, NEW st, PendingAt(d, st) PROVE d # c /\ PendingAt(d, st)'
      <3>1. d # c
        BY <2>1 DEF PendingAt, Committing
      <3> QED
        BY <1>6, <2>1, <3>1 DEF PendingAt
    <2> QED
      BY <2>1
  <1>11. ReadCovers'
    <2>1. SUFFICES ASSUME NEW d \in Threads,
                          NEW st \in IF call'[d].pc = "read" THEN store' ELSE IF call'[d].pc = "half read" THEN InDefault(store') ELSE {}
                   PROVE  st \in call'[d].present \/ \E e \in Threads \ {d} : PendingAt(e, st)'
      BY DEF ReadCovers, InDefault
    <2>2. d # c
      BY <1>4, <1>6, <2>1
    <2>3. call'[d] = call[d]
      BY <1>6, <2>2
    <2>4. CASE st \in put
      BY <1>9, <2>2, <2>4
    <2>5. CASE st \notin put
      <3>1. st \in IF call[d].pc = "read" THEN store ELSE IF call[d].pc = "half read" THEN InDefault(store) ELSE {}
        BY <1>5, <2>1, <2>3, <2>5 DEF InDefault
      <3>2. st \in call[d].present \/ \E e \in Threads \ {d} : PendingAt(e, st)
        BY <1>2, <3>1 DEF ReadCovers
      <3> QED
        BY <1>10, <2>3, <3>2
    <2> QED
      BY <2>4, <2>5
  <1>12. CountersExact'
    <2>1. Unanswered
      BY <1>2, <1>5, CountingNothing
    <2> QED
      BY <1>3, <1>4, <1>5, <2>1, CountersKept
  <1>13. IndexComplete'
    <2>1. ASSUME NEW st \in new PROVE Terms({st}) \subseteq indexed \union left \/ Pending(st)'
      <3>1. CASE st \in put
        BY <1>9, <3>1 DEF Pending, PendingAt, Committing
      <3>2. CASE st \notin put
        <4>1. Terms({st}) \subseteq indexed \union left \/ Pending(st)
          BY <1>2, <2>1, <3>2 DEF IndexComplete
        <4> QED
          BY <1>10, <4>1 DEF Pending, PendingAt, Committing
      <3> QED
        BY <3>1, <3>2
    <2> QED
      BY <1>5, <2>1 DEF IndexComplete
  <1>14. IngestConfined'
    <2>1. SUFFICES ASSUME enforced, NEW d \in Threads, call'[d].pc = "committed", call'[d].request.kind = "ingest", NEW st \in call'[d].put
                   PROVE  IsOwned(Tenant(call'[d].request), st.graph)
      BY <1>5 DEF IngestConfined, At
    <2>2. CASE d = c
      BY <1>4, <1>6, <2>1, <2>2
    <2>3. CASE d # c
      BY <1>2, <1>6, <2>1, <2>3 DEF IngestConfined, At
    <2> QED
      BY <2>2, <2>3
  <1> QED
    BY <1>7, <1>8, <1>11, <1>12, <1>13, <1>14 DEF GatewayInv

\* An ingest commits what was placed in its tenant's graphs.
LEMMA IngestKeepsInv ==
    ASSUME GatewayInv, NEW c \in Threads, Ingest(c)
    PROVE  GatewayInv'
  <1>1. call[c].pc = "working" /\ ~Foreign(call[c].request) /\ Committed(c, store \union Placed(call[c].request), Placed(call[c].request))
    BY DEF Ingest, Works, At
  <1>2. IsCall(call[c])
    BY DEF GatewayInv, GatewayTypes
  <1>3. call[c].request \in Traffic
    BY <1>1, <1>2, CallTold
  <1>4. IsFiniteSet(Placed(call[c].request)) /\ (enforced => \A st \in Placed(call[c].request) : IsOwned(Tenant(call[c].request), st.graph))
    BY <1>1, <1>3, PlacedFits
  <1> QED
    BY <1>1, <1>4, CommittedKeepsInv DEF Committed

\* An update commits what its operations insert.
LEMMA SparqlUpdateKeepsInv ==
    ASSUME GatewayInv, NEW c \in Threads, NEW unreachable, SparqlUpdate(c, unreachable)
    PROVE  GatewayInv'
  <1>1. PICK ops : ops = RewriteRemoteLoads(call[c].request.ops, unreachable)
    OBVIOUS
  <1>2. call[c].pc = "working" /\ call[c].request.kind = "update" /\ Committed(c, Applied(ops, store), Inserted(ops))
    BY <1>1 DEF SparqlUpdate, Works, At
  <1>3. IsCall(call[c])
    BY DEF GatewayInv, GatewayTypes
  <1>4. call[c].request \in Traffic
    BY <1>2, <1>3, CallTold
  <1>5. IsFiniteSet(Inserted(ops))
    BY <1>1, <1>4, InsertedFinite
  <1>6. Applied(ops, store) \subseteq store \union Inserted(ops)
    BY DEF Applied
  <1> QED
    BY <1>2, <1>5, <1>6, CommittedKeepsInv DEF Committed

\* Explicit indexing stays below the cap.
LEMMA IndexTermsKeepsInv ==
    ASSUME GatewayInv, NEW c \in Threads, IndexTerms(c)
    PROVE  GatewayInv'
  <1>1. /\ GatewayTypes /\ CapHolds /\ metrics \in Counters /\ IsCall(call[c]) /\ call[c].pc = "working"
    BY CountersTyped DEF GatewayInv, GatewayTypes, IndexTerms, Works, At
  <1>2. call[c].request \in Traffic /\ call[c] # Resting /\ call[c].pc \notin Committing
    BY <1>1, CallTold DEF Committing
  <1>3. PICK got \in SUBSET (call[c].request.terms \ indexed) :
            /\ Cardinality(got) <= Room(counted) /\ Holds(indexed \union got, counted + Cardinality(got))
            /\ Answers(c, IF got = call[c].request.terms \ indexed \/ Cardinality(got) = Room(counted) THEN 200 ELSE 500)
    BY DEF IndexTerms
  <1>14. PICK status : status = IF got = call[c].request.terms \ indexed \/ Cardinality(got) = Room(counted) THEN 200 ELSE 500
    OBVIOUS
  <1>15. status \in {200, 500} /\ Answers(c, status)
    BY <1>3, <1>14
  <1>4. PICK r : r = Answering(call[c].request, status)
    OBVIOUS
  <1>5. IsCall(r) /\ r.pc \notin Committing /\ r # Resting
    BY <1>2, <1>4, <1>15, AnsweringFits DEF Codes
  <1>6. OneGoes(c, r) /\ UNCHANGED <<enforced, store, metrics, options, holder, left>>
    BY <1>4, <1>15 DEF IndexTerms, Answers, OneGoes, Answering, Stays
  <1>7. IsFiniteSet(call[c].request.terms)
    BY <1>2, GatewayAssumption DEF IsRequest
  <1>8. IsFiniteSet(got) /\ Cardinality(got) \in Nat
    BY <1>7, FinitePart, FS_CardinalityType
  <1>9. /\ IsFiniteSet(indexed \union got) /\ Cardinality(indexed \union got) \in Nat
        /\ Cardinality(indexed \union got) <= Cardinality(indexed) + Cardinality(got) /\ Cardinality(indexed) \in Nat
    BY <1>1, <1>8, UnionBound DEF GatewayTypes
  <1>10. /\ counted + Cardinality(got) \in Nat /\ counted + Cardinality(got) <= Cap
         /\ Cardinality(indexed \union got) <= counted + Cardinality(got)
    BY <1>1, <1>3, <1>8, <1>9, GatewayAssumption DEF GatewayTypes, CapHolds, Room
  <1>11. indexed' = indexed \union got /\ IsFiniteSet(indexed') /\ counted' \in Nat /\ CapHolds'
    BY <1>3, <1>9, <1>10, HoldsFits
  <1>12. Quiet(c, r)
    BY <1>2, <1>5, <1>6, <1>11 DEF Quiet
  <1>13. CountersExact'
    BY <1>1, <1>2, <1>5, <1>6, CountersKept, CountingNothing
  <1> QED
    BY <1>12, <1>13, QuietKeeps DEF GatewayInv

-----------------------------------------------------------------------------
(* The index follows.                                                      *)

\* After an ingest its own statements come in.
LEMMA ReconcilePutsKeepsInv ==
    ASSUME GatewayInv, NEW c \in Threads, ReconcilePuts(c)
    PROVE  GatewayInv'
  <1>1. /\ GatewayTypes /\ LockHeld /\ ReadCovers /\ IndexComplete /\ CapHolds /\ IngestConfined
        /\ metrics \in Counters /\ IsCall(call[c]) /\ call[c].pc = "committed" /\ holder = NoThread
    BY CountersTyped DEF GatewayInv, GatewayTypes, ReconcilePuts, At, LockFree
  <1>2. call[c].request \in Traffic /\ call[c] # Resting /\ IsFiniteSet(call[c].put)
    BY <1>1, CallTold DEF Committing
  <1>3. PICK r : r = Answering(call[c].request, 200)
    OBVIOUS
  <1>4. IsCall(r) /\ r.pc = "answering" /\ r.pc \notin Committing /\ r # Resting
    BY <1>2, <1>3, AnsweringFits DEF Codes
  <1>5. OneGoes(c, r) /\ Count("audited") /\ UNCHANGED <<enforced, options, store, holder>>
    BY <1>3 DEF ReconcilePuts, Answers, OneGoes, Answering, Stays
  <1>6. PICK put : put = call[c].put
    OBVIOUS
  <1>7. /\ left' = (left \union Terms(put)) \ indexed'
        /\ \E got \in Indexings(put, indexed, counted) : Holds(indexed \union got.terms, counted + got.times)
    BY <1>6 DEF ReconcilePuts
  <1>8. IsFiniteSet(indexed') /\ counted' \in Nat /\ CapHolds' /\ indexed \subseteq indexed'
    <2>1. PICK got \in Indexings(put, indexed, counted) : Holds(indexed \union got.terms, counted + got.times)
      BY <1>7
    <2>2. counted \in Nat /\ counted <= Cap /\ Cardinality(indexed) <= counted /\ IsFiniteSet(indexed)
      BY <1>1 DEF GatewayTypes, CapHolds
    <2>3. /\ IsFiniteSet(got.terms) /\ Cardinality(got.terms) \in Nat /\ got.times \in Nat
          /\ Cardinality(got.terms) <= got.times /\ counted + got.times <= Cap
      BY <1>2, <1>6, <2>2, IndexingFits
    <2>4. /\ IsFiniteSet(indexed \union got.terms) /\ Cardinality(indexed \union got.terms) \in Nat /\ Cardinality(indexed) \in Nat
          /\ Cardinality(indexed \union got.terms) <= Cardinality(indexed) + Cardinality(got.terms)
      BY <2>2, <2>3, UnionBound
    <2>5. Cardinality(indexed \union got.terms) <= counted + got.times /\ counted + got.times \in Nat
      BY <2>2, <2>3, <2>4
    <2> QED
      BY <2>1, <2>3, <2>4, <2>5, HoldsFits
  <1>9. /\ call' = [d \in Threads |-> call'[d]] /\ \A d \in Threads : IsCall(call'[d])
        /\ call'[c] = r /\ \A d \in Threads \ {c} : call'[d] = call[d]
    BY <1>1, <1>4, <1>5, OthersStay
  <1>10. GatewayTypes' /\ CapHolds'
    BY <1>1, <1>5, <1>8, <1>9 DEF GatewayTypes
  <1>11. \A d \in Threads : call[d].pc \notin {"half read", "read"} /\ call'[d].pc \notin {"half read", "read"}
    <2>1. \A d \in Threads : call[d].pc \notin {"half read", "read"}
      BY <1>1, GatewayAssumption DEF LockHeld
    <2> QED
      BY <1>4, <1>9, <2>1
  <1>12. LockHeld' /\ ReadCovers'
    BY <1>1, <1>5, <1>11, GatewayAssumption DEF LockHeld, ReadCovers
  <1>13. CountersExact'
    BY <1>1, <1>2, <1>4, <1>5, CountersKept, CountingAudited
  <1>14. IndexComplete'
    <2>1. ASSUME NEW st \in store PROVE Terms({st}) \subseteq indexed' \union left' \/ Pending(st)'
      <3>1. indexed \union left \subseteq indexed' \union left'
        BY <1>7, <1>8
      <3>2. Terms(put) \subseteq indexed' \union left'
        BY <1>7
      <3>3. CASE st \in put
        BY <3>2, <3>3, TermsOfOne
      <3>4. CASE st \notin put
        <4>1. Terms({st}) \subseteq indexed \union left \/ Pending(st)
          BY <1>1, <2>1 DEF IndexComplete
        <4>2. CASE Terms({st}) \subseteq indexed \union left
          BY <3>1, <4>2
        <4>3. CASE Pending(st)
          <5>1. PICK d \in Threads : call[d].pc \in Committing /\ st \in call[d].put
            BY <4>3 DEF Pending, Committing
          <5>2. d # c
            BY <1>6, <3>4, <5>1
          <5> QED
            BY <1>9, <5>1, <5>2 DEF Pending, Committing
        <4> QED
          BY <4>1, <4>2, <4>3
      <3> QED
        BY <3>3, <3>4
    <2> QED
      BY <1>5, <2>1 DEF IndexComplete
  <1>15. IngestConfined'
    <2>1. SUFFICES ASSUME enforced, NEW d \in Threads, call'[d].pc = "committed", call'[d].request.kind = "ingest", NEW st \in call'[d].put
                   PROVE  IsOwned(Tenant(call'[d].request), st.graph)
      BY <1>5 DEF IngestConfined, At
    <2>2. d # c
      BY <1>4, <1>9, <2>1
    <2> QED
      BY <1>1, <1>9, <2>1, <2>2 DEF IngestConfined, At
  <1> QED
    BY <1>10, <1>12, <1>13, <1>14, <1>15 DEF GatewayInv

\* A step of the thread that reads the store for its reconciliation: what it read covers the store as the step leaves it.
Reads(c, r) ==
    /\ OneGoes(c, r) /\ IsCall(r) /\ r.pc \in {"half read", "read"}
    /\ call[c].pc \in Committing /\ r.put = call[c].put
    /\ UNCHANGED <<enforced, store, metrics, options, indexed, counted, left>>
    /\ holder' = c /\ \A d \in Threads \ {c} : call[d].pc \notin {"half read", "read"}
    /\ \A st \in IF r.pc = "read" THEN store ELSE InDefault(store) : st \in r.present \/ \E d \in Threads \ {c} : PendingAt(d, st)

\* A reading of the store under the lock covers it, or what it misses is pending.
LEMMA ReadsKeepsInv ==
    ASSUME GatewayInv, NEW c \in Threads, NEW r, Reads(c, r)
    PROVE  GatewayInv'
  <1>1. /\ GatewayTypes /\ LockHeld /\ ReadCovers /\ IndexComplete /\ CapHolds /\ IngestConfined
        /\ metrics \in Counters /\ IsCall(call[c])
    BY CountersTyped DEF GatewayInv, GatewayTypes
  <1>2. /\ OneGoes(c, r) /\ IsCall(r) /\ r.pc \in {"half read", "read"} /\ call[c].pc \in Committing /\ r.put = call[c].put
        /\ UNCHANGED <<enforced, store, metrics, options, indexed, counted, left>>
        /\ holder' = c /\ \A d \in Threads \ {c} : call[d].pc \notin {"half read", "read"}
        /\ \A st \in IF r.pc = "read" THEN store ELSE InDefault(store) : st \in r.present \/ \E d \in Threads \ {c} : PendingAt(d, st)
    BY DEF Reads
  <1>3. call[c] # Resting /\ r # Resting
    BY <1>1, <1>2, CallTold DEF Committing
  <1>4. /\ call' = [d \in Threads |-> call'[d]] /\ \A d \in Threads : IsCall(call'[d])
        /\ call'[c] = r /\ \A d \in Threads \ {c} : call'[d] = call[d]
    BY <1>1, <1>2, OthersStay
  <1>5. GatewayTypes' /\ CapHolds'
    BY <1>1, <1>2, <1>4 DEF GatewayTypes, CapHolds
  <1>6. LockHeld'
    BY <1>2, <1>4 DEF LockHeld
  <1>7. \A d, st : d \in Threads => (PendingAt(d, st)' <=> PendingAt(d, st))
    <2>1. ASSUME NEW d \in Threads, NEW st PROVE PendingAt(d, st)' <=> PendingAt(d, st)
      <3>1. CASE d = c
        BY <1>2, <1>4, <3>1 DEF PendingAt, Committing
      <3>2. CASE d # c
        BY <1>4, <3>2 DEF PendingAt
      <3> QED
        BY <3>1, <3>2
    <2> QED
      BY <2>1
  <1>8. ReadCovers'
    <2>1. SUFFICES ASSUME NEW d \in Threads,
                          NEW st \in IF call'[d].pc = "read" THEN store' ELSE IF call'[d].pc = "half read" THEN InDefault(store') ELSE {}
                   PROVE  st \in call'[d].present \/ \E e \in Threads \ {d} : PendingAt(e, st)'
      BY DEF ReadCovers, InDefault
    <2>2. d = c
      BY <1>2, <1>4, <2>1
    <2>3. st \in IF r.pc = "read" THEN store ELSE InDefault(store)
      BY <1>2, <1>4, <2>1, <2>2 DEF InDefault
    <2>4. st \in r.present \/ \E e \in Threads \ {c} : PendingAt(e, st)
      BY <1>2, <2>3
    <2> QED
      BY <1>4, <1>7, <2>2, <2>4
  <1>9. CountersExact'
    BY <1>1, <1>2, <1>3, CountersKept, CountingNothing
  <1>10. IndexComplete'
    <2>1. \A st : Pending(st)' <=> Pending(st)
      BY <1>7 DEF Pending, PendingAt, Committing
    <2> QED
      BY <1>1, <1>2, <2>1 DEF IndexComplete
  <1>11. IngestConfined'
    <2>1. SUFFICES ASSUME enforced, NEW d \in Threads, call'[d].pc = "committed", call'[d].request.kind = "ingest", NEW st \in call'[d].put
                   PROVE  IsOwned(Tenant(call'[d].request), st.graph)
      BY <1>2 DEF IngestConfined, At
    <2>2. d # c
      BY <1>2, <1>4, <2>1
    <2> QED
      BY <1>1, <1>4, <2>1, <2>2 DEF IngestConfined, At
  <1> QED
    BY <1>5, <1>6, <1>8, <1>9, <1>10, <1>11 DEF GatewayInv

\* The reading of the default graph, which takes the lock.
LEMMA ReadDefaultGraphKeepsInv ==
    ASSUME GatewayInv, NEW c \in Threads, ReadDefaultGraph(c)
    PROVE  GatewayInv'
  <1>1. GatewayTypes /\ LockHeld /\ IsCall(call[c]) /\ call[c].pc = "committed" /\ holder = NoThread
    BY DEF GatewayInv, GatewayTypes, ReadDefaultGraph, At, LockFree
  <1>2. call[c].request \in Traffic /\ IsFiniteSet(call[c].put) /\ call[c].pc \in Committing
    BY <1>1, CallTold DEF Committing
  <1>3. IsFiniteSet(InDefault(store))
    BY <1>1, FinitePart DEF GatewayTypes, InDefault
  <1>4. PICK r : r = Rereading("half read", call[c].request, call[c].put, InDefault(store))
    OBVIOUS
  <1>5. IsCall(r) /\ r.pc = "half read" /\ r.put = call[c].put /\ r.present = InDefault(store)
    <2>1. PICK put, present : put = call[c].put /\ present = InDefault(store)
      OBVIOUS
    <2>2. PICK asked \in Traffic : asked = call[c].request
      BY <1>2
    <2>3. CanReread("half read", asked, put, present)
      BY <1>2, <1>3, <2>1 DEF CanReread
    <2>4. r = Rereading("half read", asked, put, present)
      BY <1>4, <2>1, <2>2
    <2>5. IsCall(r) /\ r.pc = "half read" /\ r.put = put /\ r.present = present
      <3>1. IsFiniteSet(put) /\ IsFiniteSet(present)
        BY <1>2, <1>3, <2>1
      <3>2. r.pc = "half read" /\ r.request = asked /\ r.put = put /\ r.present = present
        BY <2>4 DEF Rereading
      <3>3. r = [pc |-> r.pc, request |-> r.request, put |-> r.put, present |-> r.present]
        BY <2>4, <3>2 DEF Rereading
      <3>4. IsCall(r)
        BY <3>1, <3>2, <3>3 DEF IsCall
      <3> QED
        BY <3>2, <3>4
    <2> QED
      BY <2>1, <2>5
  <1>6. OneGoes(c, r) /\ holder' = c /\ UNCHANGED <<enforced, store, metrics, options, indexed, counted, left>>
    BY <1>1, <1>4 DEF ReadDefaultGraph, OneGoes, Rereading, Stays, GatewayTypes
  <1>7. \A d \in Threads \ {c} : call[d].pc \notin {"half read", "read"}
    BY <1>1, GatewayAssumption DEF LockHeld
  <1>8. Reads(c, r)
    BY <1>2, <1>5, <1>6, <1>7 DEF Reads
  <1> QED
    BY <1>8, ReadsKeepsInv

\* The reading of the named graphs.
LEMMA ReadNamedGraphsKeepsInv ==
    ASSUME GatewayInv, NEW c \in Threads, ReadNamedGraphs(c)
    PROVE  GatewayInv'
  <1>1. GatewayTypes /\ LockHeld /\ ReadCovers /\ IsCall(call[c]) /\ call[c].pc = "half read"
    BY DEF GatewayInv, GatewayTypes, ReadNamedGraphs, At
  <1>2. /\ call[c].request \in Traffic /\ IsFiniteSet(call[c].put) /\ IsFiniteSet(call[c].present) /\ call[c].pc \in Committing
        /\ call[c] = Rereading("half read", call[c].request, call[c].put, call[c].present)
    BY <1>1, CallTold DEF Committing, Rereading
  <1>3. PICK present : present = call[c].present \union NamedRead(c)
    OBVIOUS
  <1>4. IsFiniteSet(present)
    <2>1. IsFiniteSet(NamedRead(c))
      BY <1>1, FinitePart DEF GatewayTypes, NamedRead
    <2> QED
      BY <1>2, <1>3, <2>1, UnionBound
  <1>5. PICK r : r = Rereading("read", call[c].request, call[c].put, present)
    OBVIOUS
  <1>6. IsCall(r) /\ r.pc = "read" /\ r.put = call[c].put /\ r.present = present
    <2>1. CanReread("read", call[c].request, call[c].put, present)
      BY <1>2, <1>4 DEF CanReread
    <2> QED
      BY <1>5, <2>1, RereadingFits
  <1>7. [call[c] EXCEPT !.pc = "read", !.present = present] = r
    <2>1. PICK q : q = call[c]
      OBVIOUS
    <2>2. q = Rereading("half read", q.request, q.put, q.present) /\ r = Rereading("read", q.request, q.put, present)
      BY <1>2, <1>5, <2>1
    <2>3. ASSUME NEW a, NEW b, NEW d
          PROVE  [Rereading("half read", a, b, d) EXCEPT !.pc = "read", !.present = present] = Rereading("read", a, b, present)
      <3> DEFINE shapes == [pc : {"half read", "read"}, request : {a}, put : {b}, present : {d, present}]
      <3>1. PICK before \in shapes : before = Rereading("half read", a, b, d)
        BY DEF Rereading
      <3>2. PICK after : after = [before EXCEPT !.pc = "read", !.present = present]
        OBVIOUS
      <3>3. after \in shapes /\ after.pc = "read" /\ after.present = present
        BY <3>2
      <3>4. PICK goal \in shapes : goal = Rereading("read", a, b, present)
        BY DEF Rereading
      <3>5. goal.pc = "read" /\ goal.present = present /\ goal.request = a /\ goal.put = b /\ after.request = a /\ after.put = b
            /\ after.pc = "read" /\ after.present = present
        BY <3>3, <3>4 DEF Rereading
      <3>6. after = [pc |-> after.pc, request |-> after.request, put |-> after.put, present |-> after.present]
        BY <3>3
      <3>7. after = goal
        BY <3>4, <3>5, <3>6 DEF Rereading
      <3> QED
        BY <3>1, <3>2, <3>4, <3>7
    <2>4. [q EXCEPT !.pc = "read", !.present = present] = r
      <3>1. PICK sent, put, old : sent = q.request /\ put = q.put /\ old = q.present
        OBVIOUS
      <3>2. q = Rereading("half read", sent, put, old) /\ r = Rereading("read", sent, put, present)
        BY <2>2, <3>1
      <3> QED
        BY <2>3, <3>2
    <2> QED
      BY <2>1, <2>4
  <1>8. OneGoes(c, r)
    BY <1>1, <1>3, <1>7 DEF ReadNamedGraphs, OneGoes, GatewayTypes
  <1>9. holder' = c /\ UNCHANGED <<enforced, store, metrics, options, indexed, counted, left>>
    BY <1>1 DEF ReadNamedGraphs, LockHeld, Stays, Unindexed
  <1>10. \A d \in Threads \ {c} : call[d].pc \notin {"half read", "read"}
    BY <1>1 DEF LockHeld
  <1>11. ASSUME NEW st \in store PROVE st \in present \/ \E d \in Threads \ {c} : PendingAt(d, st)
    <2>1. CASE st \in InDefault(store)
      BY <1>1, <1>3, <2>1 DEF ReadCovers
    <2>2. CASE st \notin InDefault(store)
      BY <1>3, <1>11, <2>2 DEF NamedRead
    <2> QED
      BY <2>1, <2>2
  <1>12. Reads(c, r)
    BY <1>2, <1>6, <1>8, <1>9, <1>10, <1>11 DEF Reads
  <1> QED
    BY <1>12, ReadsKeepsInv

\* The thread gives the lock back and the index holds what it read.
LEMMA ReconcileFromStoreKeepsInv ==
    ASSUME GatewayInv, NEW c \in Threads, ReconcileFromStore(c)
    PROVE  GatewayInv'
  <1>1. /\ GatewayTypes /\ LockHeld /\ ReadCovers /\ CapHolds /\ IngestConfined
        /\ metrics \in Counters /\ IsCall(call[c]) /\ call[c].pc = "read"
    BY CountersTyped DEF GatewayInv, GatewayTypes, ReconcileFromStore, At
  <1>2. call[c].request \in Traffic /\ call[c] # Resting /\ IsFiniteSet(call[c].present)
    BY <1>1, CallTold
  <1>3. PICK r : r = Answering(call[c].request, 200)
    OBVIOUS
  <1>4. IsCall(r) /\ r.pc = "answering" /\ r.pc \notin Committing /\ r # Resting
    BY <1>2, <1>3, AnsweringFits DEF Codes
  <1>5. OneGoes(c, r) /\ Count("audited") /\ UNCHANGED <<enforced, options, store>> /\ holder' = NoThread
    BY <1>3 DEF ReconcileFromStore, Answers, OneGoes, Answering, Stays
  <1>6. PICK read : read = call[c].present
    OBVIOUS
  <1>7. PICK lost : lost = indexed \ Terms(read)
    OBVIOUS
  <1>8. PICK got \in Indexings(read, indexed, counted), out \in {lost, {}} :
              /\ Holds((indexed \ out) \union got.terms, counted + got.times - Cardinality(out))
              /\ left' = Terms(read) \ (indexed \union got.terms)
    BY <1>6, <1>7 DEF ReconcileFromStore
  <1>16. IsFiniteSet(indexed') /\ counted' \in Nat /\ CapHolds'
    <2>2. counted \in Nat /\ counted <= Cap /\ Cardinality(indexed) <= counted /\ IsFiniteSet(indexed)
      BY <1>1 DEF GatewayTypes, CapHolds
    <2>3. /\ IsFiniteSet(got.terms) /\ Cardinality(got.terms) \in Nat /\ got.times \in Nat
          /\ Cardinality(got.terms) <= got.times /\ counted + got.times <= Cap
      BY <1>2, <1>6, <1>8, <2>2, IndexingFits
    <2>4. /\ IsFiniteSet(indexed \ out) /\ Cardinality(indexed \ out) = Cardinality(indexed) - Cardinality(out)
          /\ Cardinality(indexed) \in Nat /\ Cardinality(out) \in Nat
      <3>1. out \subseteq indexed
        BY <1>7, <1>8
      <3>2. indexed \cap out = out
        BY <3>1
      <3> QED
        BY <2>2, <3>1, <3>2, FS_Difference, FinitePart
    <2>5. /\ IsFiniteSet((indexed \ out) \union got.terms) /\ Cardinality((indexed \ out) \union got.terms) \in Nat
          /\ Cardinality((indexed \ out) \union got.terms) <= Cardinality(indexed \ out) + Cardinality(got.terms)
      BY <2>3, <2>4, UnionBound
    <2>6. /\ Cardinality((indexed \ out) \union got.terms) <= counted + got.times - Cardinality(out)
          /\ counted + got.times - Cardinality(out) \in Nat /\ counted + got.times - Cardinality(out) <= Cap
      BY <2>2, <2>3, <2>4, <2>5, GatewayAssumption
    <2> QED
      BY <1>8, <2>5, <2>6, HoldsFits
  <1>9. /\ call' = [d \in Threads |-> call'[d]] /\ \A d \in Threads : IsCall(call'[d])
        /\ call'[c] = r /\ \A d \in Threads \ {c} : call'[d] = call[d]
    BY <1>1, <1>4, <1>5, OthersStay
  <1>10. GatewayTypes' /\ CapHolds'
    BY <1>1, <1>5, <1>16, <1>9 DEF GatewayTypes
  <1>11. \A d \in Threads : call'[d].pc \notin {"half read", "read"}
    <2>1. \A d \in Threads \ {c} : call[d].pc \notin {"half read", "read"}
      BY <1>1 DEF LockHeld
    <2> QED
      BY <1>4, <1>9, <2>1
  <1>12. LockHeld' /\ ReadCovers'
    BY <1>5, <1>11, GatewayAssumption DEF LockHeld, ReadCovers
  <1>13. CountersExact'
    BY <1>1, <1>2, <1>4, <1>5, CountersKept, CountingAudited
  <1>14. IndexComplete'
    <2>1. ASSUME NEW st \in store PROVE Terms({st}) \subseteq indexed' \union left' \/ Pending(st)'
      <3>1. Terms(read) \subseteq indexed' \union left'
        BY <1>7, <1>8 DEF Holds
      <3>2. st \in read \/ \E d \in Threads \ {c} : PendingAt(d, st)
        BY <1>1, <1>6 DEF ReadCovers
      <3>3. CASE st \in read
        BY <3>1, <3>3, TermsOfOne
      <3>4. CASE \E d \in Threads \ {c} : PendingAt(d, st)
        BY <1>9, <3>4 DEF Pending, PendingAt, Committing
      <3> QED
        BY <3>2, <3>3, <3>4
    <2> QED
      BY <1>5, <2>1 DEF IndexComplete
  <1>15. IngestConfined'
    <2>1. SUFFICES ASSUME enforced, NEW d \in Threads, call'[d].pc = "committed", call'[d].request.kind = "ingest", NEW st \in call'[d].put
                   PROVE  IsOwned(Tenant(call'[d].request), st.graph)
      BY <1>5 DEF IngestConfined, At
    <2>2. d # c
      BY <1>4, <1>9, <2>1
    <2> QED
      BY <1>1, <1>9, <2>1, <2>2 DEF IngestConfined, At
  <1> QED
    BY <1>10, <1>12, <1>13, <1>14, <1>15 DEF GatewayInv

\* A new process: no request is under way, and the index starts from the default graph.
LEMMA NobodyBusy ==
    ASSUME call = [c \in Threads |-> Resting]
    PROVE  /\ \A c \in Threads : call[c] = Resting /\ IsCall(call[c]) /\ call[c].pc = "resting"
           /\ call = [c \in Threads |-> call[c]] /\ Cardinality(BusyThreads) = 0
  <1>1. \A c \in Threads : call[c] = Resting /\ IsCall(call[c]) /\ call[c].pc = "resting"
    BY RestingFits
  <1>2. BusyThreads = {}
    BY <1>1 DEF BusyThreads
  <1> QED
    BY <1>1, <1>2, FS_EmptySet

\* A new process starts counting at zero.
LEMMA ZeroesTyped ==
    /\ Zeroes \in Counters /\ Zeroes.requests = 0 /\ Zeroes.answered = 0
    /\ LET count == Zeroes.statuses IN 0 = count[200] + count[400] + count[401] + count[403] + count[500]
  <1>1. PICK none : none = [code \in Codes |-> 0]
    OBVIOUS
  <1>2. none \in [Codes -> Nat] /\ none[200] + none[400] + none[401] + none[403] + none[500] = 0
    BY <1>1 DEF Codes
  <1> QED
    BY <1>1, <1>2 DEF Zeroes, Counters

\* The invariant holds of a new gateway.
LEMMA GatewayInitInv == GatewayInit => GatewayInv
  <1> SUFFICES ASSUME GatewayInit PROVE GatewayInv
    OBVIOUS
  <1>1. /\ enforced \in BOOLEAN /\ store = {} /\ indexed = {} /\ counted = 0 /\ holder = NoThread /\ call = [c \in Threads |-> Resting]
        /\ metrics = Zeroes /\ options = 0
    BY DEF GatewayInit
  <1>2. /\ \A c \in Threads : call[c] = Resting /\ IsCall(call[c]) /\ call[c].pc = "resting"
        /\ call = [c \in Threads |-> call[c]] /\ Cardinality(BusyThreads) = 0
    BY <1>1, NobodyBusy
  <1>3. GatewayTypes
    BY <1>1, <1>2, FS_EmptySet DEF GatewayTypes
  <1>4. LockHeld /\ ReadCovers /\ IngestConfined
    BY <1>1, <1>2, GatewayAssumption DEF LockHeld, ReadCovers, IngestConfined, At
  <1>5. CountersExact
    BY <1>1, <1>2, ZeroesTyped DEF CountersExact
  <1>6. IndexComplete
    BY <1>1 DEF IndexComplete
  <1>7. CapHolds
    BY <1>1, FS_EmptySet, GatewayAssumption DEF CapHolds
  <1> QED
    BY <1>3, <1>4, <1>5, <1>6, <1>7 DEF GatewayInv

\* A restart drops the requests and indexes what it reads.
LEMMA GatewayRestartKeepsInv ==
    ASSUME GatewayInv, GatewayRestart
    PROVE  GatewayInv'
  <1>1. GatewayTypes /\ CapHolds
    BY DEF GatewayInv
  <1>2. /\ call' = [c \in Threads |-> Resting] /\ holder' = NoThread /\ metrics' = Zeroes /\ options' = 0
        /\ UNCHANGED <<enforced, store>>
    BY DEF GatewayRestart
  <1>3. PICK kept : kept = IF persistent THEN indexed ELSE {}
    OBVIOUS
  <1>5. /\ left' = Terms(store) \ indexed'
        /\ \E got \in Indexings(InDefault(store), kept, Cardinality(kept)) : Holds(kept \union got.terms, Cardinality(kept) + got.times)
    BY <1>3 DEF GatewayRestart
  <1>6. /\ \A c \in Threads : call'[c] = Resting /\ IsCall(call'[c]) /\ call'[c].pc = "resting"
        /\ call' = [c \in Threads |-> call'[c]] /\ Cardinality(BusyThreads') = 0
    <2>1. \A c \in Threads : call'[c] = Resting /\ IsCall(call'[c]) /\ call'[c].pc = "resting"
      BY <1>2, RestingFits
    <2>2. BusyThreads' = {}
      BY <2>1 DEF BusyThreads
    <2> QED
      BY <1>2, <2>1, <2>2, FS_EmptySet
  <1>7. IsFiniteSet(indexed') /\ counted' \in Nat /\ CapHolds'
    <2>1. IsFiniteSet(InDefault(store))
      BY <1>1, FinitePart DEF GatewayTypes, InDefault
    <2>2. IsFiniteSet(kept) /\ Cardinality(kept) \in Nat /\ Cardinality(kept) <= Cap
      <3>1. IsFiniteSet(indexed) /\ Cardinality(indexed) \in Nat /\ Cardinality(indexed) <= Cap
        BY <1>1, FS_CardinalityType, GatewayAssumption DEF GatewayTypes, CapHolds
      <3> QED
        BY <1>3, <3>1, FS_EmptySet, GatewayAssumption
    <2>3. PICK got \in Indexings(InDefault(store), kept, Cardinality(kept)) : Holds(kept \union got.terms, Cardinality(kept) + got.times)
      BY <1>5
    <2>4. /\ IsFiniteSet(got.terms) /\ Cardinality(got.terms) \in Nat /\ got.times \in Nat
          /\ Cardinality(got.terms) <= got.times /\ Cardinality(kept) + got.times <= Cap
      BY <2>1, <2>2, <2>3, IndexingFits
    <2>5. /\ IsFiniteSet(kept \union got.terms) /\ Cardinality(kept \union got.terms) \in Nat
          /\ Cardinality(kept \union got.terms) <= Cardinality(kept) + Cardinality(got.terms)
      BY <2>2, <2>4, UnionBound
    <2>6. Cardinality(kept \union got.terms) <= Cardinality(kept) + got.times /\ Cardinality(kept) + got.times \in Nat
      BY <2>2, <2>4, <2>5
    <2> QED
      BY <2>3, <2>4, <2>5, <2>6, HoldsFits
  <1>8. GatewayTypes' /\ CapHolds'
    BY <1>1, <1>2, <1>6, <1>7 DEF GatewayTypes
  <1>9. LockHeld' /\ ReadCovers' /\ IngestConfined'
    BY <1>2, <1>6, GatewayAssumption DEF LockHeld, ReadCovers, IngestConfined, At
  <1>10. CountersExact'
    BY <1>2, <1>6, ZeroesTyped DEF CountersExact
  <1>11. IndexComplete'
    <2>1. ASSUME NEW st \in store PROVE Terms({st}) \subseteq indexed' \union left'
      <3>1. Terms(store) \subseteq indexed' \union left'
        BY <1>5
      <3> QED
        BY <2>1, <3>1, TermsOfOne
    <2> QED
      BY <1>2, <2>1 DEF IndexComplete
  <1> QED
    BY <1>8, <1>9, <1>10, <1>11 DEF GatewayInv

\* Every step of the gateway keeps it.
LEMMA GatewayStepInv ==
    ASSUME GatewayInv, GatewayNext
    PROVE  GatewayInv'
  <1>1. CASE \E c \in Threads, sent \in Traffic : Arrive(c, sent)
    BY <1>1, ArriveKeepsInv
  <1>2. CASE \E c \in Threads : Unauthenticated(c)
    BY <1>2, UnauthenticatedKeepsInv
  <1>3. CASE \E c \in Threads : Authorize(c)
    BY <1>3, AuthorizeKeepsInv
  <1>4. CASE \E c \in Threads : Finish(c)
    BY <1>4, FinishKeepsInv
  <1>5. CASE \E c \in Threads : Fails(c) \/ StorageFails(c) \/ Query(c) \/ IngestForbidden(c) \/ (\E unreachable : RemoteLoadFails(c, unreachable))
    BY <1>5, RefusalsKeepInv
  <1>6. CASE \E c \in Threads : Ingest(c)
    BY <1>6, IngestKeepsInv
  <1>7. CASE \E c \in Threads : \E unreachable : SparqlUpdate(c, unreachable)
    BY <1>7, SparqlUpdateKeepsInv
  <1>8. CASE \E c \in Threads : IndexTerms(c)
    BY <1>8, IndexTermsKeepsInv
  <1>9. CASE \E c \in Threads : ReconcilePuts(c)
    BY <1>9, ReconcilePutsKeepsInv
  <1>10. CASE \E c \in Threads : ReadDefaultGraph(c)
    BY <1>10, ReadDefaultGraphKeepsInv
  <1>11. CASE \E c \in Threads : ReadNamedGraphs(c)
    BY <1>11, ReadNamedGraphsKeepsInv
  <1>12. CASE \E c \in Threads : ReconcileFromStore(c)
    BY <1>12, ReconcileFromStoreKeepsInv
  <1>13. CASE GatewayRestart
    BY <1>13, GatewayRestartKeepsInv
  <1> QED
    BY <1>1, <1>2, <1>3, <1>4, <1>5, <1>6, <1>7, <1>8, <1>9, <1>10, <1>11, <1>12, <1>13 DEF GatewayNext

\* It speaks of the gateway only.
LEMMA GatewayStutterInv ==
    ASSUME GatewayInv, UNCHANGED gatewayVars
    PROVE  GatewayInv'
  <1>1. UNCHANGED <<enforced, store, indexed, counted, holder, call, metrics, options, left>>
    BY DEF gatewayVars
  <1>2. GatewayTypes' /\ LockHeld'
    BY <1>1 DEF GatewayInv, GatewayTypes, LockHeld
  <1>3. CountersExact' /\ CapHolds'
    BY <1>1 DEF GatewayInv, CountersExact, BusyThreads, CapHolds
  <1>4. ReadCovers' /\ IndexComplete' /\ IngestConfined'
    BY <1>1 DEF GatewayInv, ReadCovers, PendingAt, InDefault, IndexComplete, Pending, IngestConfined, At
  <1> QED
    BY <1>2, <1>3, <1>4 DEF GatewayInv

\* The invariant says what the gateway promises.
LEMMA GatewayInvSafe ==
    ASSUME GatewayInv
    PROVE  GatewaySafe
  <1>1. GatewayTypes /\ CountersExact /\ IndexComplete /\ CapHolds /\ IngestConfined
    BY DEF GatewayInv
  <1>2. IsFiniteSet(BusyThreads) /\ Cardinality(BusyThreads) \in Nat
    BY GatewayAssumption, FinitePart DEF BusyThreads
  <1>3. (\A c \in Threads : call[c] = Resting) => Cardinality(BusyThreads) = 0
    BY FS_EmptySet DEF BusyThreads
  <1>4. metrics.requests \in Nat /\ metrics.answered \in Nat /\ options \in Nat
        /\ metrics.requests = metrics.answered + options + Cardinality(BusyThreads)
    BY <1>1 DEF CountersExact, Counters
  <1>5. LET count == metrics.statuses IN metrics.answered = count[200] + count[400] + count[401] + count[403] + count[500]
    BY <1>1 DEF CountersExact
  <1>6. CountersAgree
    BY <1>2, <1>3, <1>4, <1>5 DEF CountersAgree
  <1> QED
    BY <1>1, <1>6 DEF GatewaySafe

\* Requests are counted and confined, and the index follows the store.
THEOREM GatewayRequestsSafe == GatewaySpec => []GatewaySafe
  <1>1. GatewayInv /\ [GatewayNext]_gatewayVars => GatewayInv'
    BY GatewayStepInv, GatewayStutterInv
  <1>2. GatewayInv => GatewaySafe
    BY GatewayInvSafe
  <1> QED
    BY GatewayInitInv, <1>1, <1>2, PTL DEF GatewaySpec

-----------------------------------------------------------------------------
(* The services side by side, as the run checks them.                      *)

ServicesInv == AuditInv /\ TenantInv /\ JwksInv /\ GatewayInv /\ SchedulerInv

\* Whichever service steps, its invariant is kept and the others rest.
LEMMA ServicesStepInv ==
    ASSUME ServicesInv, [MCNext]_<<rest, scene, sample>>
    PROVE  ServicesInv'
  <1>1. AuditInv /\ TenantInv /\ JwksInv /\ GatewayInv /\ SchedulerInv
    BY DEF ServicesInv
  <1>2. (UNCHANGED auditVars \/ AuditNext) => AuditInv'
    BY <1>1, AuditStepInv, AuditStutterInv
  <1>3. (UNCHANGED tenantVars \/ TenantNext) => TenantInv'
    BY <1>1, TenantStepInv, TenantStutterInv
  <1>4. (UNCHANGED jwksVars \/ JwksNext) => JwksInv'
    BY <1>1, JwksStepInv, JwksStutterInv
  <1>5. (UNCHANGED gatewayVars \/ GatewayNext) => GatewayInv'
    BY <1>1, GatewayStepInv, GatewayStutterInv
  <1>6. (UNCHANGED backupVars \/ BackupNext) => SchedulerInv'
    BY <1>1, BackupStepInv, BackupStutterInv
  <1>7. /\ UNCHANGED auditVars \/ AuditNext
        /\ UNCHANGED tenantVars \/ TenantNext
        /\ UNCHANGED jwksVars \/ JwksNext
        /\ UNCHANGED gatewayVars \/ GatewayNext
        /\ UNCHANGED backupVars \/ BackupNext
    <2>1. CASE MCNext
      BY <2>1 DEF MCNext, rest
    <2>2. CASE UNCHANGED <<rest, scene, sample>>
      BY <2>2 DEF rest
    <2> QED
      BY <2>1, <2>2
  <1> QED
    BY <1>2, <1>3, <1>4, <1>5, <1>6, <1>7 DEF ServicesInv

\* What holds of every service alone holds of all of them.
LEMMA ServicesInvAlways == MCSpec => []ServicesInv
  <1>1. MCInit => ServicesInv
    BY AuditInitInv, TenantInitInv, JwksInitInv, GatewayInitInv, BackupInitInv DEF MCInit, ServicesInv
  <1>2. ServicesInv /\ [MCNext]_<<rest, scene, sample>> => ServicesInv'
    BY ServicesStepInv
  <1> QED
    BY <1>1, <1>2, PTL DEF MCSpec

\* The audit file, the tenants' keys and the provider's keys hold what was recorded, shown and published,
\* whatever fails, races and restarts.
THEOREM RecordsAreSafe == MCSpec => []RecordsSafe
  <1>1. ServicesInv => RecordsSafe
    <2> SUFFICES ASSUME ServicesInv PROVE RecordsSafe
      OBVIOUS
    <2>1. AuditInv /\ TenantInv /\ JwksInv
      BY DEF ServicesInv
    <2>2. AuditSafe
      BY <2>1, InvClean, InvGenuine DEF AuditSafe
    <2>3. RegistryAgrees /\ KeyAdmits
      BY <2>1, TenantInvAgrees, TenantInvAdmits
    <2>4. KeysFresh
      BY <2>1 DEF JwksInv
    <2> QED
      BY <2>2, <2>3, <2>4 DEF RecordsSafe
  <1> QED
    BY <1>1, ServicesInvAlways, PTL

\* Requests are counted once, confined to their tenant and followed by the semantic index, and one scheduler
\* at most runs, whatever commits, reconciliations, starts and schedules come in between.
THEOREM RequestsAreSafe == MCSpec => []RequestsSafe
  <1>1. ServicesInv => RequestsSafe
    <2> SUFFICES ASSUME ServicesInv PROVE RequestsSafe
      OBVIOUS
    <2>1. GatewayInv /\ SchedulerInv
      BY DEF ServicesInv
    <2>2. GatewaySafe /\ OneScheduler
      BY <2>1, GatewayInvSafe, SchedulerInvOne
    <2> QED
      BY <2>2 DEF RequestsSafe
  <1> QED
    BY <1>1, ServicesInvAlways, PTL
=============================================================================
