-------------------------- MODULE SubscriptionLists --------------------------
(***************************************************************************)
(* The client of the public housing-subscription API                       *)
(* (services/cheongyak/api_client.py) with its cache of pages, and the     *)
(* handlers that answer from it (api/cheongyak.py).  A list is put         *)
(* together from as many pages as the provider says there are, each kept   *)
(* an hour; the details of a notice are one page each.                     *)
(*                                                                         *)
(* Handlers run in threads and share the cache without a lock, so that a   *)
(* thread may change it while another walks through it.                    *)
(***************************************************************************)
EXTENDS Integers, FiniteSetsExt, SequencesExt

CONSTANTS Readers,     \* threads that serve requests
          Details,     \* notices whose details are asked for
          Notices,     \* for each notice: announced, and when reception starts and ends (0: not known)
          Listings,    \* the provider's list, version after version: sequences of notices
          PageSize,    \* perPage
          MaxRows,     \* _MAX_ROWS
          MaxEntries,  \* _MAX_CACHE_ENTRIES
          PageTTL,     \* _CACHE_TTL
          LastTime     \* bound of the clock

ASSUME SubscriptionAssumption ==
    /\ PageSize \in Nat \ {0} /\ MaxRows \in Nat \ {0} /\ MaxEntries \in Nat /\ PageTTL \in Nat \ {0}
    /\ LastTime \in Nat /\ Len(Listings) > 0

VARIABLES time,
          version,  \* of the provider's list
          movedAt,  \* when it last changed
          keySet,   \* CHEONGYAK_API_KEY is set
          pages,    \* _cache: for each key what was answered, and when it was asked
          reader,   \* each thread: where it is, the page it is at, the rows it has
          shaken    \* threads whose walk through the cache another one disturbed

subscriptionVars == <<time, version, movedAt, keySet, pages, reader, shaken>>

PageNumbers == 1..(Max({Len(Listings[v]) : v \in DOMAIN Listings}) \div PageSize + 1)
Keys == PageNumbers \union Details
Absent == [at |-> -1, version |-> 0]
Cached == {k \in Keys : pages[k] # Absent}
Idle == [pc |-> "idle", key |-> 0, began |-> 0, rows |-> <<>>, got |-> 0, status |-> 0]

SubscriptionTypeOK ==
    /\ time \in 0..LastTime /\ version \in DOMAIN Listings /\ movedAt \in -PageTTL..LastTime
    /\ keySet \in BOOLEAN
    /\ pages \in [Keys -> [at : 0..LastTime, version : DOMAIN Listings] \union {Absent}]
    /\ \A r \in Readers :
          /\ reader[r].pc \in {"idle", "walk", "prune", "read", "fetch", "store", "done"}
          /\ reader[r].status \in {0, 200, 500, 502}
    /\ shaken \subseteq Readers

SubscriptionInit ==
    /\ time = 0 /\ version = 1 /\ movedAt = -PageTTL /\ keySet \in BOOLEAN
    /\ pages = [k \in Keys |-> Absent]
    /\ reader = [r \in Readers |-> Idle] /\ shaken = {}

-----------------------------------------------------------------------------
Page(v, p) == SubSeq(Listings[v], (p - 1) * PageSize + 1, Min({p * PageSize, Len(Listings[v])}))

(* _status_for and the order of the list: open, announced, undated, closed, *)
(* then the newest first.                                                  *)
StatusFor(n) ==
    CASE Notices[n].starts = 0 -> 2
      [] Notices[n].starts > time -> 1
      [] Notices[n].ends # 0 /\ Notices[n].ends < time -> 3
      [] OTHER -> 0
Sorted(rows) ==
    LET before(i, j) ==
            LET s == StatusFor(rows[i])  t == StatusFor(rows[j])
                a == Notices[rows[i]].announced  b == Notices[rows[j]].announced
            IN  s < t \/ (s = t /\ (a > b \/ (a = b /\ i < j)))
        order == SetToSortSeq(DOMAIN rows, before)
    IN  [i \in DOMAIN rows |-> rows[order[i]]]

(* The last page: it is empty, all the provider counts are there, or as    *)
(* many as a list may have.                                                *)
OnlyPage(v, p, rows) == TRUE \* Mutated: a single page is asked for, as before it was mended
LastPage(v, p, rows) ==
    Page(v, p) = <<>> \/ Len(rows) >= Len(Listings[v]) \/ Len(rows) >= MaxRows

-----------------------------------------------------------------------------
Ends(r, status, rows) ==
    reader' = [reader EXCEPT ![r] = [@ EXCEPT !.pc = "done", !.status = status, !.rows = rows]]

(* What a page adds: the list goes on with the next one, or is sorted and  *)
(* answered; details are answered at once.                                 *)
Takes(r, v) ==
    LET p == reader[r].key
        rows == IF p \in Details THEN <<>> ELSE reader[r].rows \o Page(v, p)
    IN  IF p \in Details THEN Ends(r, 200, <<>>)
        ELSE IF LastPage(v, p, rows) THEN Ends(r, 200, Sorted(SubSeq(rows, 1, Min({Len(rows), MaxRows}))))
        ELSE reader' = [reader EXCEPT ![r] = [@ EXCEPT !.pc = "walk", !.key = p + 1, !.rows = rows, !.got = 0]]

AskFor(r) ==
    /\ reader[r].pc = "idle"
    /\ \E k \in {1} \union Details : reader' = [reader EXCEPT ![r] = [Idle EXCEPT !.pc = "walk", !.key = k]]
    /\ UNCHANGED <<time, version, movedAt, keySet, pages, shaken>>

Outdated(k) == time - pages[k].at >= PageTTL
Excess(keys) == CHOOSE old \in SUBSET keys :
    /\ Cardinality(old) = Max({0, Cardinality(keys) - MaxEntries})
    /\ \A k \in old, l \in keys \ old : pages[k].at <= pages[l].at
Pruned == {k \in Cached : Outdated(k)} \union Excess({k \in Cached : ~Outdated(k)})

(* Every thread that is walking through the cache when its keys change.    *)
Disturbs(r) == shaken' = shaken \union {s \in Readers \ {r} : reader[s].pc = "prune"}

(* _prune_cache begins to walk: until it ends another thread may add or    *)
(* remove an entry.                                                        *)
BeginPrune(r) ==
    /\ reader[r].pc = "walk"
    /\ reader' = [reader EXCEPT ![r] = [@ EXCEPT !.pc = "prune", !.began = time]]
    /\ shaken' = shaken \ {r}
    /\ UNCHANGED <<time, version, movedAt, keySet, pages>>

(* It ends: what is too old or too much goes, and the key is looked for.   *)
EndPrune(r) ==
    /\ reader[r].pc = "prune"
    /\ pages' = [k \in Keys |-> IF k \in Pruned THEN Absent ELSE pages[k]]
    /\ IF Pruned = {} THEN UNCHANGED shaken ELSE Disturbs(r)
    /\ reader' = [reader EXCEPT ![r].pc = IF reader[r].key \in Cached \ Pruned THEN "read" ELSE "fetch"]
    /\ UNCHANGED <<time, version, movedAt, keySet>>

(* The interpreter notices that the dictionary changed size under the walk *)
(* (RuntimeError), or that a key it was about to compare is gone           *)
(* (KeyError).                                                             *)
PruneRaises(r) ==
    /\ reader[r].pc = "prune" /\ r \in shaken
    /\ \E status \in {500, 502} : Ends(r, status, <<>>)
    /\ UNCHANGED <<time, version, movedAt, keySet, pages, shaken>>

(* The entry that was there is read; it may have been pruned meanwhile.    *)
(* Its age is tested again, by the time at which the walk removed all that *)
(* were too old: what is left is fresh.                                    *)
Read(r) ==
    /\ reader[r].pc = "read"
    /\ IF pages[reader[r].key] = Absent THEN Ends(r, 502, <<>>) ELSE Takes(r, pages[reader[r].key].version)
    /\ UNCHANGED <<time, version, movedAt, keySet, pages, shaken>>

(* Without a key the client raises RuntimeError, answered as 500; anything *)
(* else the provider does wrong is answered as 502.                        *)
FetchFails == IF keySet THEN 502 ELSE 500

FetchPage(r) ==
    /\ reader[r].pc = "fetch"
    /\ \/ keySet /\ reader' = [reader EXCEPT ![r] = [@ EXCEPT !.pc = "store", !.got = version]]
       \/ Ends(r, FetchFails, <<>>)
    /\ UNCHANGED <<time, version, movedAt, keySet, pages, shaken>>

(* The page is kept under the time at which it was asked for.              *)
StorePage(r) ==
    /\ reader[r].pc = "store"
    /\ pages' = [pages EXCEPT ![reader[r].key] = [at |-> reader[r].began, version |-> reader[r].got]]
    /\ IF reader[r].key \in Cached THEN UNCHANGED shaken ELSE Disturbs(r)
    /\ Takes(r, reader[r].got)
    /\ UNCHANGED <<time, version, movedAt, keySet>>

Done(r) ==
    /\ reader[r].pc = "done"
    /\ reader' = [reader EXCEPT ![r] = Idle]
    /\ UNCHANGED <<time, version, movedAt, keySet, pages, shaken>>

-----------------------------------------------------------------------------
(* The provider's list changes; the clock's unit is longer than a request. *)
ListMoves ==
    /\ version < Len(Listings)
    /\ version' = version + 1 /\ movedAt' = time
    /\ UNCHANGED <<time, keySet, pages, reader, shaken>>

SubscriptionTick ==
    /\ time < LastTime
    /\ \A r \in Readers : reader[r].pc = "idle"
    /\ time' = time + 1
    /\ UNCHANGED <<version, movedAt, keySet, pages, reader, shaken>>

SubscriptionNext ==
    \/ \E r \in Readers : \/ AskFor(r) \/ BeginPrune(r) \/ EndPrune(r) \/ PruneRaises(r)
                          \/ Read(r) \/ FetchPage(r) \/ StorePage(r) \/ Done(r)
    \/ ListMoves \/ SubscriptionTick

SubscriptionSpec == SubscriptionInit /\ [][SubscriptionNext]_subscriptionVars

-----------------------------------------------------------------------------
(* A list that is answered is the provider's, every notice once and none   *)
(* missing up to the limit, unless the provider's list changed within the  *)
(* lifetime of a page: then pages of two versions may stand in one list,   *)
(* and a notice twice or not at all (api_client.py:181).                   *)
ListIsWholeUnlessMoved(r) ==
    reader[r].status = 200 /\ reader[r].key \notin Details /\ time - movedAt >= PageTTL
        => LET rows == reader[r].rows
               want == SubSeq(Listings[version], 1, Min({MaxRows, Len(Listings[version])}))
           IN  Len(rows) = Len(want) /\ ToSet(rows) = ToSet(want)

(* The answer 500 means that the key is missing, as the handler's comment  *)
(* says (api/cheongyak.py:40), unless another thread changed the cache     *)
(* under the walk of the one that answers: a RuntimeError of the           *)
(* interpreter is taken for the missing key.                               *)
BlamesKeyUnlessShaken(r) == reader[r].status = 500 => ~keySet \/ r \in shaken

(* What a thread answers is true of the provider's list and of the key,    *)
(* and the cache behind it stays bounded: MaxEntries pages and one for     *)
(* each thread, as it is cut before a page is stored (api_client.py:53).   *)
AnswersAreTrue ==
    /\ SubscriptionTypeOK
    /\ \A r \in Readers :
        reader[r].pc = "done" => ListIsWholeUnlessMoved(r) /\ BlamesKeyUnlessShaken(r)
    /\ Cardinality(Cached) <= MaxEntries + Cardinality(Readers)
=============================================================================
