------------------------------ MODULE ListSpec ------------------------------
(***************************************************************************)
(* What list.c promises its callers, without nodes or pointers: a List is *)
(* either absent (the caller's List* is NULL) or a sequence of data       *)
(* pointers, and every int-returning call reports 0 when it did what was  *)
(* asked and -1 when it left the sequence alone.  Indices are 0-based as  *)
(* in the C interface.  `call` names the call a step makes, so that the  *)
(* list a step produces is checked against the call that produced it.    *)
(* List.tla is checked to implement this module.                         *)
(***************************************************************************)
EXTENDS Integers, SequencesExt

CONSTANTS Data,     \* the data pointers callers store
          MaxIndex  \* the largest index a caller passes

VARIABLES exists, seq, ret, call

avars == <<exists, seq, ret, call>>

Init ==
  /\ exists = FALSE
  /\ seq = << >>
  /\ ret = 0
  /\ call = << >>

Create ==
  /\ ~exists
  /\ exists' = TRUE
  /\ seq' = << >>
  /\ UNCHANGED ret

Destroy ==
  /\ exists
  /\ exists' = FALSE
  /\ seq' = << >>
  /\ UNCHANGED ret

\* Appending can always fail for want of memory.
Add(d) ==
  \/ /\ exists
     /\ seq' = Append(seq, d)
     /\ ret' = 0
     /\ UNCHANGED exists
  \/ /\ ret' = -1
     /\ UNCHANGED <<exists, seq>>

\* A call either succeeds with 0 and applies new, or fails with -1 and
\* changes nothing; which one is decided by ok.
Answer(ok, new) ==
  /\ IF ok THEN seq' = new /\ ret' = 0 ELSE seq' = seq /\ ret' = -1
  /\ UNCHANGED exists

RemoveData(d) == Answer(exists /\ d \in ToSet(seq), RemoveFirst(seq, d))

RemoveIndex(i) == Answer(exists /\ i < Len(seq), RemoveAt(seq, i + 1))

SetIndex(i, d) ==
  Answer(exists /\ i < Len(seq), [seq EXCEPT ![i + 1] = d])

Clear ==
  /\ exists
  /\ seq' = << >>
  /\ UNCHANGED <<exists, ret>>

Next ==
  \/ Create /\ call' = <<"create">>
  \/ Destroy /\ call' = <<"destroy">>
  \/ Clear /\ call' = <<"clear">>
  \/ \E d \in Data :
       \/ Add(d) /\ call' = <<"add", d>>
       \/ RemoveData(d) /\ call' = <<"remove", d>>
  \/ \E i \in 0..MaxIndex :
       \/ RemoveIndex(i) /\ call' = <<"remove_at", i>>
       \/ \E d \in Data : SetIndex(i, d) /\ call' = <<"set", i, d>>

Spec == Init /\ [][Next]_avars

=============================================================================
