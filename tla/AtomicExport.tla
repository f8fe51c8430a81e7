---------------------------- MODULE AtomicExport ----------------------------
(***************************************************************************)
(* What `adiungere export` promises, without the steps it takes: a reader  *)
(* of the final name sees the job's output appear at once, whole, and      *)
(* holding for each source a state that source was in; an export that      *)
(* answers "done" has published, and one that answers that it refused,     *)
(* stopped or found a mismatch has not (docs/integrity.md, "refuses to     *)
(* keep it unless every track's fingerprint in the output equals the       *)
(* fingerprint recorded here").                                            *)
(***************************************************************************)
EXTENDS Naturals

CONSTANTS
    Exporting,   \* the export jobs
    Recordings,  \* the files they read
    State,       \* the states a recording can be in
    NotPublished

VARIABLES
    reads,       \* reads[j]: the recordings job j reads, by position
    past,        \* every state each recording has been in
    published,   \* what each job has put under its final name, by position
    answer       \* what each job answered

vars == <<reads, past, published, answer>>

Init ==
    /\ DOMAIN reads = Exporting
    /\ \E first \in State : past = [r \in Recordings |-> {first}]
    /\ published = [j \in Exporting |-> NotPublished]
    /\ answer = [j \in Exporting |-> "none"]

Change(r) ==
    /\ \E state \in State : past' = [past EXCEPT ![r] = @ \cup {state}]
    /\ UNCHANGED <<published, answer>>

Publish(j) ==
    /\ answer[j] = "none"
    /\ published[j] = NotPublished
    /\ \A s \in DOMAIN reads[j] : reads[j][s] \in Recordings
    /\ \E output \in [DOMAIN reads[j] -> State] :
         /\ \A s \in DOMAIN reads[j] : output[s] \in past[reads[j][s]]
         /\ published' = [published EXCEPT ![j] = output]
    /\ UNCHANGED <<past, answer>>

Answer(j) ==
    /\ answer[j] = "none"
    /\ \E given \in {"refused", "failed", "stopped", "mismatch", "done", "crashed"} :
         /\ given = "done" => published[j] # NotPublished
         /\ given \in {"refused", "stopped", "mismatch"} => published[j] = NotPublished
         /\ answer' = [answer EXCEPT ![j] = given]
    /\ UNCHANGED <<past, published>>

Next ==
    /\ \/ \E r \in Recordings : Change(r)
       \/ \E j \in Exporting : Publish(j) \/ Answer(j)
    /\ UNCHANGED reads

Spec == Init /\ [][Next]_vars
=============================================================================
