-------------------------- MODULE MCStoredResponse --------------------------
(***************************************************************************)
(* An instance of StoredResponse for TLC: two clock units to the second    *)
(* and durations of 7 bits, so that 40 seconds overflow to a negative      *)
(* number and 70 seconds to a small positive one.                          *)
(***************************************************************************)
EXTENDS StoredResponse

CC(maxAge) == [NoRespCC EXCEPT !.maxAge = maxAge]
Tpl(cc, expiresIn, modified, skew) ==
    [cc |-> cc, expiresIn |-> expiresIn, modified |-> modified, skew |-> skew,
     vary |-> {}, tagged |-> FALSE, listed |-> FALSE]

MCTemplates ==
    { Tpl(CC(2), Absent, Absent, 0),
      Tpl(CC(1), 8, -40, -2),
      Tpl(CC(0), 6, Absent, 4),
      Tpl(CC(40), 4, Absent, 0),
      Tpl(CC(70), Absent, -30, Absent),
      Tpl(CC(Bare), Absent, -30, 0),
      Tpl(Absent, 4, Absent, Absent),
      Tpl(Absent, Bare, -40, -2),
      Tpl([NoRespCC EXCEPT !.public = TRUE], Absent, -50, 2) }

MCFreshenings ==
    { Tpl(Absent, Absent, Absent, Absent), Tpl(CC(1), 2, Absent, 4) }

MCReqCCs ==
    { NoReqCC }
    \cup { [NoReqCC EXCEPT !.maxAge = d] : d \in {0, 4, 40, 65} }
    \cup { [NoReqCC EXCEPT !.minFresh = d] : d \in {1, 40} }
    \cup { [NoReqCC EXCEPT !.maxStale = d] : d \in {1, 31, 40, Bare} }
    \cup { [NoReqCC EXCEPT !.maxAge = 1, !.maxStale = 2, !.minFresh = 1] }
=============================================================================
