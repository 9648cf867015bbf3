------------------------- MODULE RecordingLifecycle -------------------------
(***************************************************************************)
(* What docs/architecture.md promises of a recording: its status only      *)
(* moves along RECORDING_TRANSITIONS; its code may change while polls read *)
(* it, is final once the flush has published it, and only a stopped        *)
(* recording's code is ever saved as a scenario version.                   *)
(***************************************************************************)
EXTENDS Domain, Integers

CONSTANTS Recordings, Codes

VARIABLES status,  \* the status in each recording's row, or "absent"
          code,    \* the code in the row
          saved    \* the codes saved from the recording as versions

recordingVars == <<status, code, saved>>

Init == /\ status = [r \in Recordings |-> "absent"]
        /\ code = [r \in Recordings |-> 0]
        /\ saved = [r \in Recordings |-> {}]

Creates(r) == /\ status[r] = "absent" /\ status'[r] = "starting"
              /\ code'[r] = 0 /\ saved'[r] = saved[r]

\* Any move of the table; the code changes only while ready, or with the
\* flush that stops the recording.
Proceeds(r) ==
    /\ status[r] \in RecordingStatus /\ status'[r] \in RecordingStatus
    /\ Allowed(RECORDING_TRANSITIONS, status[r], status'[r])
    /\ \/ code'[r] = code[r]
       \/ status[r] = "ready" /\ status'[r] = "ready"
       \/ status[r] = "stopping" /\ status'[r] = "stopped"
    /\ saved'[r] = saved[r]

Saves(r) == /\ status[r] = "stopped" /\ status'[r] = "stopped" /\ code'[r] = code[r]
            /\ saved'[r] = saved[r] \cup {code[r]}

Rests(r) == status'[r] = status[r] /\ code'[r] = code[r] /\ saved'[r] = saved[r]

Next == /\ status' \in [Recordings -> RecordingStatus \cup {"absent"}]
        /\ code' \in [Recordings -> Codes]
        /\ saved' \in [Recordings -> SUBSET Codes]
        /\ \A r \in Recordings : Creates(r) \/ Proceeds(r) \/ Saves(r) \/ Rests(r)

Spec == Init /\ [][Next]_recordingVars

=============================================================================
