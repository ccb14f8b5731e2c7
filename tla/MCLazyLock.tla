----------------------------- MODULE MCLazyLock -----------------------------
(* Instances of LazyLock for TLC. *)
EXTENDS LazyLock, TLC

Threads == Permutations(Proc)

=============================================================================
