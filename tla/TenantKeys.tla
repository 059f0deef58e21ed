----------------------------- MODULE TenantKeys -----------------------------
(* The tenant registry: TenantService over MemoryTenantStore, one lock around each store call, or over   *)
(* RocksTenantStore, whose put and delete read the old record and then write one batch.  The service     *)
(* reads a record, changes it and puts it back in separate store calls.                                    *)
EXTENDS Naturals, FiniteSets, Functions

CONSTANTS
    Tenants,        \* valid tenant ids
    Callers,        \* concurrent requests of the administration
    MaxKeys,        \* bound on the keys of one process
    MaxCalls,       \* bound on the calls
    MaxBoots        \* bound on the processes

VARIABLES
    durable,        \* RocksTenantStore
    tenants,        \* t:<id>, the records
    by_digest,      \* k:<digest>, the owner of a key
    key_counter,    \* TenantService.key_counter
    boot,           \* which process runs: its clock tells its keys from those of another one
    request,        \* what each caller is at
    calls,          \* counts the calls
    stamp,          \* history: counts the writes to a record
    wanted,         \* history: the status each tenant was last given
    raced,          \* history: tenants with a write that was computed from an older record
    shown, gone     \* history: keys given to callers; keys revoked or deleted with their tenant

registryVars == <<durable, tenants, by_digest, key_counter, boot, request, calls>>
tenantHistory == <<stamp, wanted, raced, shown, gone>>
tenantVars == <<registryVars, tenantHistory>>

Statuses == {"active", "disabled"}
Ready == [pc |-> "ready"]
Known(id) == id \in DOMAIN tenants
Keys == Tenants \X (1..MaxBoots) \X (1..MaxKeys)
Drop(f, set) == Restrict(f, DOMAIN f \ set)
Over(f, g) == [x \in DOMAIN f \union DOMAIN g |-> IF x \in DOMAIN g THEN g[x] ELSE f[x]]
Owned(id) == {k \in DOMAIN by_digest : by_digest[k] = id}
Assign(set, id) == [k \in set |-> id]

TenantInit ==
    /\ durable \in BOOLEAN
    /\ tenants = <<>> /\ by_digest = <<>>
    /\ key_counter = 1 /\ boot = 1 /\ calls = 0
    /\ request = [c \in Callers |-> Ready]
    /\ stamp = [id \in Tenants |-> 0] /\ wanted = [id \in Tenants |-> "active"] /\ raced = {} /\ shown = {} /\ gone = {}

\* resolve_key: the record of the owner, when it is there; whether it lists the key is not asked.
Resolve(key) == IF key \in DOMAIN by_digest /\ Known(by_digest[key]) THEN {tenants[by_digest[key]]} ELSE {}

-----------------------------------------------------------------------------
(* the service reads *)

Continue(c, record) ==
    /\ request' = [request EXCEPT ![c] = record]
    /\ UNCHANGED <<durable, tenants, by_digest, boot, tenantHistory>>
Start(c, record) ==
    /\ request[c] = Ready /\ calls < MaxCalls
    /\ calls' = calls + 1
    /\ Continue(c, record)
Putting(id, record, made, dropped, given, seen) ==
    [pc |-> "putting", id |-> id, record |-> record, made |-> made, dropped |-> dropped, given |-> given, seen |-> seen, old |-> {}]

\* new_key: the counter is taken for good, whatever becomes of the put.
NewKey(id) == <<id, boot, key_counter>>
TakeKey == key_counter <= MaxKeys /\ key_counter' = key_counter + 1

Create(c, id, status, generate_key) ==
    /\ ~Known(id)
    /\ IF generate_key THEN TakeKey ELSE UNCHANGED key_counter
    /\ LET made == IF generate_key THEN {NewKey(id)} ELSE {}
       IN  Start(c, Putting(id, [id |-> id, status |-> status, keys |-> made], made, {}, {status}, stamp[id]))

\* Without a status of its own the request creates an active tenant, and updates with the one just read.
AdminCreate(c, id, named, generate_key) ==
    Create(c, id, IF named = {} THEN "active" ELSE CHOOSE status \in named : TRUE, generate_key)

\* Slip a change of the code could make, for the mutation runs.
NamedOrActive(named, id) == IF named = {} THEN "active" ELSE CHOOSE status \in named : TRUE
NamedOrExisting(named, id) == IF named = {} THEN tenants[id].status ELSE CHOOSE status \in named : TRUE

\* The handler reads the record, and TenantService.update reads it again.
AdminUpdate(c, id, named) ==
    /\ Known(id)
    /\ Start(c, [pc |-> "updating", id |-> id, status |-> NamedOrExisting(named, id), given |-> named, seen |-> stamp[id]])
    /\ UNCHANGED key_counter

Update(c) ==
    /\ request[c].pc = "updating"
    /\ LET r == request[c]
       IN  Continue(c, IF Known(r.id)
                       THEN Putting(r.id, [tenants[r.id] EXCEPT !.status = r.status], {}, {}, r.given, r.seen)
                       ELSE Ready)
    /\ UNCHANGED <<key_counter, calls>>

AddKey(c, id) ==
    /\ Known(id) /\ TakeKey
    /\ Start(c, Putting(id, [tenants[id] EXCEPT !.keys = @ \union {NewKey(id)}], {NewKey(id)}, {}, {}, stamp[id]))

RevokeKey(c, id, key) ==
    /\ Known(id) /\ key \in tenants[id].keys
    /\ Start(c, Putting(id, [tenants[id] EXCEPT !.keys = @ \ {key}], {}, {key}, {}, stamp[id]))
    /\ UNCHANGED key_counter

Delete(c, id) ==
    /\ Start(c, [pc |-> "deleting", id |-> id, seen |-> stamp[id], old |-> {}])
    /\ UNCHANGED key_counter

-----------------------------------------------------------------------------
(* the store writes *)

\* Slips a change of the code could make, for the mutation runs.
IndexAddedOnly(id, record, old) == by_digest' = Over(by_digest, Assign(record.keys, id))
IndexClearedLast(id, record, old) == by_digest' = Drop(Over(by_digest, Assign(record.keys, id)), old)
KeepIndex(id, old) == UNCHANGED by_digest

\* write_tenant and delete of the durable store read the previous record first.
ReadPrevious(c) ==
    /\ durable /\ request[c].pc \in {"putting", "deleting"}
    /\ LET id == request[c].id
       IN  request' = [request EXCEPT ![c].pc = IF @ = "putting" THEN "batch put" ELSE "batch delete",
                                      ![c].old = IF Known(id) THEN tenants[id].keys ELSE {}]
    /\ UNCHANGED <<durable, tenants, by_digest, key_counter, boot, calls, tenantHistory>>

Wrote(id, seen) ==
    /\ stamp' = [stamp EXCEPT ![id] = @ + 1]
    /\ raced' = IF stamp[id] # seen THEN raced \union {id} ELSE raced

\* reindex of the memory store clears all entries of the owner, the batch those of the record it read.
IndexPut(id, record, old) == by_digest' = Over(Drop(by_digest, IF durable THEN old ELSE Owned(id)), Assign(record.keys, id))
IndexDelete(id, old) == by_digest' = Drop(by_digest, IF durable THEN old ELSE Owned(id))

Put(c) ==
    /\ request[c].pc = IF durable THEN "batch put" ELSE "putting"
    /\ LET r == request[c]
       IN  /\ tenants' = Over(tenants, [x \in {r.id} |-> r.record])
           /\ IndexPut(r.id, r.record, r.old)
           /\ Wrote(r.id, r.seen)
           /\ wanted' = [wanted EXCEPT ![r.id] = IF r.given = {} THEN @ ELSE r.record.status]
           /\ shown' = shown \union r.made
           /\ gone' = gone \union r.dropped
    /\ request' = [request EXCEPT ![c] = Ready]
    /\ UNCHANGED <<durable, key_counter, boot, calls>>

RemoveTenant(c) ==
    /\ request[c].pc = IF durable THEN "batch delete" ELSE "deleting"
    /\ LET r == request[c]
       IN  /\ tenants' = Drop(tenants, {r.id})
           /\ IndexDelete(r.id, r.old)
           /\ Wrote(r.id, r.seen)
           /\ gone' = gone \union {k \in shown : k[1] = r.id}
    /\ request' = [request EXCEPT ![c] = Ready]
    /\ UNCHANGED <<durable, key_counter, boot, calls, wanted, shown>>

\* A new process: the calls of the old one are over, the durable records stay.
TenantRestart ==
    /\ boot < MaxBoots /\ boot' = boot + 1
    /\ key_counter' = 1
    /\ request' = [c \in Callers |-> Ready]
    /\ IF durable THEN UNCHANGED <<tenants, by_digest, gone>> ELSE tenants' = <<>> /\ by_digest' = <<>> /\ gone' = shown
    /\ UNCHANGED <<durable, calls, stamp, wanted, raced, shown>>

TenantNext ==
    \/ \E c \in Callers, id \in Tenants :
        \/ \E named \in {{}} \union {{status} : status \in Statuses} :
              AdminUpdate(c, id, named) \/ \E generate_key \in BOOLEAN : AdminCreate(c, id, named, generate_key)
        \/ AddKey(c, id) \/ Delete(c, id)
        \/ \E key \in Keys : RevokeKey(c, id, key)
    \/ \E c \in Callers : Update(c) \/ ReadPrevious(c) \/ Put(c) \/ RemoveTenant(c)
    \/ TenantRestart

TenantSpec == TenantInit /\ [][TenantNext]_tenantVars

-----------------------------------------------------------------------------
(* properties *)

\* Every key of a record resolves to it, in both stores and whatever calls raced.
ListedKeysResolve == \A id \in DOMAIN tenants : \A k \in tenants[id].keys : k \in DOMAIN by_digest /\ by_digest[k] = id

\* A key never resolves to a tenant it was not made for, and in the memory store, or where no two calls
\* worked on the tenant at a time, only to a record that lists it.
NoStrayKeys ==
    \A k \in DOMAIN by_digest :
        /\ by_digest[k] = k[1]
        /\ ~durable \/ k[1] \notin raced => Known(k[1]) /\ k \in tenants[k[1]].keys

\* Without two calls on a tenant at a time, across restarts, a key works from the answer that shows it to
\* the answer that revokes it.
ShownUntilGone ==
    \A k \in shown : k[1] \notin raced => (Resolve(k) # {} <=> k \notin gone)

\* A tenant keeps the status it was last given: no rename, no key and no restart brings it back to another
\* one, unless two calls worked on the tenant at a time.
StatusKept == \A id \in DOMAIN tenants : id \notin raced => tenants[id].status = wanted[id]

RegistryAgrees == StatusKept /\ ListedKeysResolve /\ NoStrayKeys /\ ShownUntilGone
=============================================================================
