--------------------------------- MODULE Cio ---------------------------------
(***************************************************************************)
(* cio_location() and cio_basis() remember their last results, each by     *)
(* date and accuracy alone: the basis is also made of a right ascension    *)
(* and of the kind of it.  What the celestial pole offsets change in them  *)
(* is left out.                                                            *)
(***************************************************************************)
EXTENDS Moments

CONSTANTS
    LocTypes,       \* kinds of right ascension that programs pass
    ValidLocTypes   \* CIO_VS_GCRS, CIO_VS_EQUINOX

ASSUME CioAssumption == ValidLocTypes \subseteq LocTypes

VARIABLES
    located,        \* t_last, acc_last and ra_last of cio_location()
    basis,          \* t_last, acc_last, zz and xx of cio_basis()
    asked, given    \* the last call of cio_basis() that succeeded

cioVars == <<located, basis, asked, given>>

Keys == [t : Times, acc : Accuracies]
Unset == [t |-> NoTime, acc |-> NoTime]

CioInit ==
    /\ located = [for |-> Unset, ra |-> Unset]
    /\ basis = [for |-> Unset, z |-> Unset, x |-> Unset]
    /\ asked = Unset
    /\ given = basis

ForDate(memo, m) == memo.for.t = m.t       \* fault: of either accuracy
IsFor(memo, m) == memo.for.t = m.t /\ memo.for.acc = m.acc

\* cio_location(): a right ascension is known by the moment it was computed for.
Located(m) == IF IsFor(located, m) THEN located ELSE [for |-> m, ra |-> m]

\* cio_basis(): the moment and the z axis are stored before the kind is looked at.
CioBasis(m, ra, type) ==
    LET hit == IsFor(basis, m)
        b == IF hit THEN basis
             ELSE [for |-> m, z |-> m, x |-> IF type \in ValidLocTypes THEN ra ELSE basis.x]
    IN  /\ basis' = b
        /\ IF hit \/ type \in ValidLocTypes THEN asked' = m /\ given' = b
           ELSE UNCHANGED <<asked, given>>

\* The program takes the right ascension from cio_location() or, as by cio_ra(), anew.
UseLocation == \E m \in Keys, type \in LocTypes :
                  located' = Located(m) /\ CioBasis(m, Located(m).ra, type)
UseRa == \E m \in Keys, type \in LocTypes : CioBasis(m, m, type) /\ UNCHANGED located

CioNext == UseLocation \/ UseRa

CioSpec == CioInit /\ [][CioNext]_cioVars

\* The axes that cio_basis() gives are all those of the moment it was asked for.
CioOfItsDate == asked # Unset => given.z = asked /\ given.x = asked

=============================================================================
