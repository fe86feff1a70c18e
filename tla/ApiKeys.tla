---- MODULE ApiKeys ----
(***************************************************************************)
(* API keys and the validation cache that each process keeps of them       *)
(* (src/database/api_key_store.py, src/api/routes/api_keys.py,             *)
(* require_api_key in src/api/dependencies.py).                            *)
(*                                                                         *)
(* The processes share the database and nothing else.  The handlers are    *)
(* coroutines that wait for nothing, so that within a process a request    *)
(* runs to its end, but for the time between its calls to the database, in *)
(* which the other processes go on.                                        *)
(***************************************************************************)
EXTENDS Integers, Sequences, FiniteSets

CONSTANTS
    Processes,
    Keys,         \* keys that may be created
    None,
    CacheTTL, CacheSize,
    Latency,      \* bound: how long a validation is under way
    MaxTime       \* bound: time passes to here

Reading == [key: Keys, since: Nat]
Revocation == [at: Nat, by: Processes]

ApiKeysConstants ==
    /\ None \notin Nat \cup Reading \cup Revocation
    /\ CacheTTL \in Nat \ {0} /\ CacheSize \in Nat \ {0}
    /\ Latency \in Nat /\ MaxTime \in Nat

VARIABLES
    now,
    keys,      \* the collection api_keys
    cache,     \* _validation_cache of each process, oldest entry first
    busy,      \* the validation a process has read an active key for
    used,      \* history: when each process last accepted each key
    revoked    \* history: when and where each key was revoked

vars == <<now, keys, cache, busy, used, revoked>>

Key == [state: {"none", "active", "inactive"}, expires: Nat \cup {None}]
Entry == [key: Keys, until: Nat]

TypeOK ==
    /\ now \in Nat
    /\ keys \in [Keys -> Key]
    /\ cache \in [Processes -> Seq(Entry)]
    /\ busy \in [Processes -> Reading \cup {None}]
    /\ used \in [Processes -> [Keys -> Nat \cup {None}]]
    /\ revoked \in [Keys -> Revocation \cup {None}]

Init ==
    /\ now = 0
    /\ keys = [k \in Keys |-> [state |-> "none", expires |-> None]]
    /\ cache = [p \in Processes |-> <<>>]
    /\ busy = [p \in Processes |-> None]
    /\ used = [p \in Processes |-> [k \in Keys |-> None]]
    /\ revoked = [k \in Keys |-> None]

Free(p) == busy[p] = None
IsExpired(k) == keys[k].expires # None /\ now > keys[k].expires

-----------------------------------------------------------------------------
(* Validation: validate_api_key.                                           *)

Cached(p, k) == {i \in 1..Len(cache[p]) : cache[p][i].key = k}

(* A key has one entry at most, which is taken out. *)
Without(entries, k) ==
    IF \E i \in 1..Len(entries) : entries[i].key = k
    THEN LET i == CHOOSE i \in 1..Len(entries) : entries[i].key = k
         IN SubSeq(entries, 1, i - 1) \o SubSeq(entries, i + 1, Len(entries))
    ELSE entries

Fresh(p, k) == \E i \in Cached(p, k) : cache[p][i].until > now
Accept(p, k) == used' = [used EXCEPT ![p][k] = now]

(* A fresh entry answers without the database. *)
Hit(p, k) ==
    /\ Free(p) /\ Fresh(p, k)
    /\ IF IsExpired(k)
       THEN /\ cache' = [cache EXCEPT ![p] = <<>>]
            /\ UNCHANGED used
       ELSE Accept(p, k) /\ UNCHANGED cache
    /\ UNCHANGED <<now, keys, busy, revoked>>

(* The key is looked up.  One that has expired is deactivated.             *)
Miss(p, k) ==
    /\ Free(p) /\ ~Fresh(p, k)
    /\ IF keys[k].state = "active" /\ ~IsExpired(k)
       THEN /\ busy' = [busy EXCEPT ![p] = [key |-> k, since |-> now]]
            /\ cache' = [cache EXCEPT ![p] = Without(@, k)]
            /\ UNCHANGED keys
       ELSE /\ cache' = [cache EXCEPT ![p] =
                            IF keys[k].state = "active" THEN <<>>
                            ELSE Without(@, k)]
            /\ keys' = IF keys[k].state = "active"
                       THEN [keys EXCEPT ![k].state = "inactive"] ELSE keys
            /\ UNCHANGED busy
    /\ UNCHANGED <<now, used, revoked>>

(* The oldest entries make room. *)
Remember(entries, k) ==
    LET others == Without(entries, k) IN
    Append(IF Len(others) >= CacheSize
           THEN SubSeq(others, Len(others) - CacheSize + 2, Len(others))
           ELSE others,
           [key |-> k, until |-> now + CacheTTL])

(* _cache_validation, after last_used has been written, and the answer.    *)
Record(p) ==
    /\ ~Free(p)
    /\ LET k == busy[p].key IN
       /\ cache' = [cache EXCEPT ![p] = Remember(@, k)]
       /\ Accept(p, k)
    /\ busy' = [busy EXCEPT ![p] = None]
    /\ UNCHANGED <<now, keys, revoked>>

(* The write fails: the key counts as invalid. *)
RecordFails(p) ==
    /\ ~Free(p)
    /\ busy' = [busy EXCEPT ![p] = None]
    /\ UNCHANGED <<now, keys, cache, used, revoked>>

-----------------------------------------------------------------------------
(* The life of a key. *)

(* create_api_key, by its owner, or for a code. *)
Created(k, expires) ==
    /\ keys[k].state = "none"
    /\ keys' = [keys EXCEPT ![k] = [state |-> "active", expires |-> expires]]

CreateKey(p, k, expires) ==
    /\ Free(p) /\ Created(k, expires)
    /\ UNCHANGED <<now, cache, busy, used, revoked>>

(* Mutant: the entries of the process that revokes stay. *)
RevokeOnly(p, k) ==
    /\ Free(p) /\ keys[k].state = "active"
    /\ keys' = [keys EXCEPT ![k].state = "inactive"]
    /\ revoked' = [revoked EXCEPT ![k] = [at |-> now, by |-> p]]
    /\ UNCHANGED <<now, cache, busy, used>>

(* revoke_api_key: the process forgets all it has cached, the others do    *)
(* not.                                                                    *)
Revoke(p, k) ==
    /\ Free(p) /\ keys[k].state = "active"
    /\ keys' = [keys EXCEPT ![k].state = "inactive"]
    /\ cache' = [cache EXCEPT ![p] = <<>>]
    /\ revoked' = [revoked EXCEPT ![k] = [at |-> now, by |-> p]]
    /\ UNCHANGED <<now, busy, used>>

(* update_api_key_name *)
Rename(p, k) ==
    /\ Free(p) /\ keys[k].state # "none"
    /\ cache' = [cache EXCEPT ![p] = <<>>]
    /\ UNCHANGED <<now, keys, busy, used, revoked>>

Tick ==
    /\ now < MaxTime
    /\ \A p \in Processes : ~Free(p) => now < busy[p].since + Latency
    /\ now' = now + 1
    /\ UNCHANGED <<keys, cache, busy, used, revoked>>

Next ==
    \/ \E p \in Processes, k \in Keys :
         \/ Hit(p, k) \/ Miss(p, k)
         \/ \E expires \in {None} \cup now..MaxTime : CreateKey(p, k, expires)
         \/ Revoke(p, k) \/ Rename(p, k)
    \/ \E p \in Processes : Record(p) \/ RecordFails(p)
    \/ Tick

Spec == Init /\ [][Next]_vars

-----------------------------------------------------------------------------
(* A key that was revoked or has expired works no longer than a cached     *)
(* validation lives, however validations and revocations interleave, and   *)
(* not at all in the process that revoked it once the revocation is done.  *)
DeadKeysLapse ==
    \A p \in Processes, k \in Keys : used[p][k] # None =>
        /\ keys[k].expires # None => used[p][k] <= keys[k].expires + Latency
        /\ revoked[k] # None =>
             /\ used[p][k] < revoked[k].at + Latency + CacheTTL
             /\ p = revoked[k].by => used[p][k] <= revoked[k].at
====
