------------------------------ MODULE MCRecords ------------------------------
(***************************************************************************)
(* Model checking of what the program keeps on disk, and of the search     *)
(* whose results it keeps.  The parts share nothing here: focus picks the  *)
(* one that runs, the others stay as they are in their initial state.      *)
(***************************************************************************)
EXTENDS Records, Credentials, Autopilot, WalkForward, Selection

VARIABLE focus

mcVars == <<recordVars, credentialVars, autopilotVars, walkVars, selectionVars, focus>>

MCInit ==
  /\ RecordsInit /\ CredentialsInit /\ AutopilotInit /\ WalkInit /\ SelectionInit
  /\ focus \in {"records", "credentials", "autopilot", "walk", "selection"}

MCNext ==
  /\ UNCHANGED focus
  /\ \/ /\ focus = "records" /\ RecordsNext
        /\ UNCHANGED <<credentialVars, autopilotVars, walkVars, selectionVars>>
     \/ /\ focus = "credentials" /\ CredentialsNext
        /\ UNCHANGED <<recordVars, autopilotVars, walkVars, selectionVars>>
     \/ /\ focus = "autopilot" /\ AutopilotNext
        /\ UNCHANGED <<recordVars, credentialVars, walkVars, selectionVars>>
     \/ /\ focus = "walk" /\ WalkNext
        /\ UNCHANGED <<recordVars, credentialVars, autopilotVars, selectionVars>>
     \/ /\ focus = "selection" /\ SelectionNext
        /\ UNCHANGED <<recordVars, credentialVars, autopilotVars, walkVars>>

MCSpec == MCInit /\ [][MCNext]_mcVars

\* The third candidate needs more bars than a window may have.
MCWarmup == <<8, 12, 30>>
\* Of expected_max_sharpe for one standard deviation.
MCLuckFactor == SubSeq(<<0, 27, 73, 111, 142>>, 1, MaxTrials)

================================================================================
