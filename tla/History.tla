------------------------------- MODULE History -------------------------------
(***************************************************************************)
(* The verified receipts a record keeps (history.go), as operators on the  *)
(* part of the record they read: its History, its LastResult with the time *)
(* of the release, and nothing else.                                       *)
(*                                                                         *)
(* Abstractions.  Times, tags and commits are numbers; time 0 is unknown   *)
(* and sorts before every other, result 0 is none.  Copying of plans is    *)
(* left out: values of TLA+ are owned.                                     *)
(***************************************************************************)
EXTENDS Integers, Sequences, FiniteSets

CONSTANT HistoryLimit

ASSUME HistoryLimitAssumption == HistoryLimit \in Nat \ {0}

Unknown == 0

Receipt(at, result) == [at |-> at, tag |-> result.tag, commit |-> result.commit]

Before(a, b) ==
  \/ a.at < b.at
  \/ a.at = b.at /\ a.tag < b.tag
  \/ a.at = b.at /\ a.tag = b.tag /\ a.commit < b.commit

\* The elements of s at the positions in I, in the order of s.
Pick(s, I) ==
  [k \in 1..Cardinality(I) |->
     s[CHOOSE i \in I : Cardinality({j \in I : j <= i}) = k]]

\* sort.SliceStable: position k gets the element with k - 1 others before it.
Sorted(s) ==
  LET Rank(i) == Cardinality({j \in DOMAIN s : Before(s[j], s[i]) \/ (j < i /\ ~Before(s[i], s[j]))})
  IN [k \in DOMAIN s |-> s[CHOOSE i \in DOMAIN s : Rank(i) = k - 1]]

Same(a, b) == a.tag = b.tag /\ a.commit = b.commit

\* The first receipt of each tag and commit.
Unique(s) == Pick(s, {i \in DOMAIN s : \A j \in 1..(i - 1) : ~Same(s[i], s[j])})

\* Mutant of Latest: the first ones are kept.
Oldest(s) == Pick(s, {i \in DOMAIN s : i <= HistoryLimit})

Latest(s) == Pick(s, {i \in DOMAIN s : i > Len(s) - HistoryLimit})

\* The receipt of a record that older versions wrote.
Legacy(s) == IF s.history = <<>> /\ s.last # 0
             THEN <<Receipt(s.releasedAt, [tag |-> s.last, commit |-> s.last])>>
             ELSE <<>>

VerifiedHistory(s) == Latest(Unique(Sorted(s.history \o Legacy(s))))

\* State.recordVerified, in the record s.
RecordVerified(s, result, at) ==
  LET old == [s EXCEPT !.history = VerifiedHistory(s)]
  IN IF \E i \in DOMAIN old.history : Same(old.history[i], result) THEN old
     ELSE [old EXCEPT !.history =
             VerifiedHistory([old EXCEPT !.history = Append(@, Receipt(at, result))])]
=============================================================================
