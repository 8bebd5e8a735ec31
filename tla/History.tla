------------------------------ MODULE History ------------------------------
(***************************************************************************)
(* What a history of committed transactions must satisfy to be             *)
(* serializable.  No code of the repository is modelled here: the          *)
(* component modules record the committed transactions in `hist` and the   *)
(* order in which the versions of a key were installed in `chain`, and     *)
(* state their isolation properties with these operators.                  *)
(*                                                                         *)
(*   hist   a set of records [tid, reads]; reads is a set of [key, val]    *)
(*   chain  chain[k] is the sequence of the values installed for k; the    *)
(*          loaded one, written by `loader`, comes before chain[k][1]      *)
(*                                                                         *)
(* A value is a record whose field tid names the transaction that wrote it.*)
(***************************************************************************)
EXTENDS Integers, Sequences, FiniteSets

(* The places of w's versions in k's version order: 0 is the loaded one.   *)
VersionsOf(chain, loader, k, w) ==
    {i \in 0..Len(chain[k]) : IF i = 0 THEN w = loader ELSE chain[k][i].tid = w}

(* b depends on a: it read a's version (wr), overwrote it (ww), or wrote a *)
(* version that follows one a read (rw, an anti-dependency).               *)
Precedes(chain, loader, a, b) ==
    /\ a.tid # b.tid
    /\ \/ \E r \in b.reads : r.val.tid = a.tid
       \/ \E k \in DOMAIN chain : \E i, j \in DOMAIN chain[k] :
             i < j /\ chain[k][i].tid = a.tid /\ chain[k][j].tid = b.tid
       \/ \E r \in a.reads : \E j \in DOMAIN chain[r.key] :
             /\ chain[r.key][j].tid = b.tid
             /\ \A i \in VersionsOf(chain, loader, r.key, r.val.tid) : i < j

(* The precedence graph has no cycle: every non-empty set of transactions  *)
(* has a member that depends on no other member.                           *)
IsSerializable(hist, chain, loader) ==
    \A S \in (SUBSET hist) \ {{}} :
        \E b \in S : \A a \in S : ~Precedes(chain, loader, a, b)
=============================================================================
