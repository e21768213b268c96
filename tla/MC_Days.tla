------------------------------- MODULE MC_Days -------------------------------
(***************************************************************************)
(* Instance of Schedules: the loops of petitions, policy news and contests *)
(* at the hours of the default settings.                                   *)
(***************************************************************************)
EXTENDS Schedules

CONSTANTS complaint, policy, contest

MCHour == [s \in {complaint, policy, contest} |->
              CASE s = complaint -> 3 [] s = policy -> 1 [] s = contest -> 12]
=============================================================================
