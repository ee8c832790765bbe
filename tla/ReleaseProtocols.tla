------------------------- MODULE ReleaseProtocols -------------------------
(***************************************************************************)
(* The three release protocols: promotion, scheduler cutover, enforcement. *)
(* They are run by hand, on different resources, and share no state, so a  *)
(* behaviour runs one of them, chosen at the start, and leaves the others  *)
(* where they begin.                                                       *)
(***************************************************************************)
EXTENDS Promotion, RefreshCutover, Enforcement

VARIABLE active

ReleaseInit ==
  /\ active \in {"promotion", "cutover", "enforcement"}
  /\ Init /\ CutoverInit /\ EnforcementInit

ReleaseNext ==
  \/ active = "promotion" /\ Next /\ UNCHANGED <<active, cvars, evars>>
  \/ active = "cutover" /\ CutoverNext /\ UNCHANGED <<active, vars, evars>>
  \/ active = "enforcement" /\ EnforcementNext /\ UNCHANGED <<active, vars, cvars>>

ReleaseSpec == ReleaseInit /\ [][ReleaseNext]_<<active, vars, cvars, evars>>

ReleaseTypeOK == TypeOK /\ CutoverTypeOK /\ EnforcementTypeOK
=============================================================================
