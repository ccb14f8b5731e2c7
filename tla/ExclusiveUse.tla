---------------------------- MODULE ExclusiveUse ----------------------------
(***************************************************************************)
(* What the locks of the library are there for: a resource that cannot     *)
(* stand two threads is used by one thread at a time.  It says nothing of  *)
(* how.  LazyLock and CalcephPlugin implement it, and CspicePlugin for     *)
(* kernels and errors, though not for the settings of errors.              *)
(***************************************************************************)
CONSTANTS
    Proc,           \* the threads of the calling program
    Resource,       \* what is used by one thread at a time
    Nothing         \* what a thread uses that uses none of it

VARIABLE using      \* what each thread is using

Init == using = [p \in Proc |-> Nothing]

Begin(p, r) ==
    /\ using[p] = Nothing
    /\ \A q \in Proc : using[q] # r
    /\ using' = [using EXCEPT ![p] = r]

End(p) ==
    /\ using[p] # Nothing
    /\ using' = [using EXCEPT ![p] = Nothing]

Next == \E p \in Proc : End(p) \/ \E r \in Resource : Begin(p, r)

Spec == Init /\ [][Next]_using

\* No two threads use the same thing at a time.
Exclusive == \A p, q \in Proc : p # q /\ using[p] = using[q] => using[p] = Nothing

=============================================================================
