------------------------------ MODULE KeyRotator ------------------------------
(***************************************************************************)
(* APIKeyRotator of shared/utils/api_key_rotator.py.  Its methods hold one *)
(* lock from first to last line, so each is one function from a rotator    *)
(* state to the next.  Keys are numbered in the order they were loaded;    *)
(* cooldown[k] is the time until which key k is not to be chosen.          *)
(***************************************************************************)
EXTENDS Naturals, FiniteSetsExt

CONSTANT NumKeys    \* len(self.keys), at least 1 (the constructor raises otherwise)

ASSUME NumKeysAssumption == NumKeys \in Nat \ {0}

Keys == 1 .. NumKeys

Rotator == [index : Keys, cooldown : [Keys -> Nat]]

NewRotator == [index |-> 1, cooldown |-> [k \in Keys |-> 0]]

Rested(rot, now) == {k \in Keys : rot.cooldown[k] <= now}

\* Every key is cooling down: _get_active_keys() clears all cooldowns.
Exhausted(rot, now) == Rested(rot, now) = {}

\* _get_active_keys() returns the rested keys, after the reset if there are none.
ActiveKeys(rot, now) == IF Exhausted(rot, now) THEN Keys ELSE Rested(rot, now)

Refresh(rot, now) ==
    IF Exhausted(rot, now) THEN [rot EXCEPT !.cooldown = [k \in Keys |-> 0]] ELSE rot

\* Mutated: always falls back to the first active key.
RotateToFirst(rot, now) == [Refresh(rot, now) EXCEPT !.index = Min(ActiveKeys(rot, now))]

\* rotate(): the active key after the current one, round and round; the first
\* active key when the current one is cooling down.
Rotate(rot, now) ==
    LET active == ActiveKeys(rot, now)
        later == {k \in active : k > rot.index}
    IN  [Refresh(rot, now) EXCEPT !.index =
           IF rot.index \in active /\ later # {} THEN Min(later) ELSE Min(active)]

\* get_key(): the current key unless it is cooling down.
GetKey(rot, now) ==
    LET active == ActiveKeys(rot, now)
    IN  [Refresh(rot, now) EXCEPT !.index =
           IF rot.index \in active THEN rot.index ELSE Min(active)]

\* mark_failed(): the new expiry replaces the old one, longer or not.
MarkFailed(rot, key, until) == [rot EXCEPT !.cooldown[key] = until]
=============================================================================
