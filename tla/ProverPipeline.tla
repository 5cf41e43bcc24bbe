--------------------------- MODULE ProverPipeline ---------------------------
(***************************************************************************)
(* How a sealed batch gets its proof.  The server keeps one row per batch  *)
(* in proof_generation_details and answers two HTTP requests.  The gateway *)
(* runs two loops: one fetches the next batch to prove and records it in   *)
(* the prover's database, the other submits finished proofs.  Witness      *)
(* generators and provers are queued job processors: each takes a row of   *)
(* its table, works on it and stores the outcome.                          *)
(*                                                                         *)
(* A request, its answer or the connection may be lost at any step, the    *)
(* gateway and the workers may be killed at any step and start again, and  *)
(* the server hands a batch out again once its time is over.  Between the  *)
(* witness generator and the provers there is a gap: the only call of      *)
(* insert_prover_jobs is commented out in basic_circuits.rs.  Its INSERT   *)
(* may happen here at any time, and nothing is assumed to make it happen;  *)
(* nor is it known who marks prover jobs as skipped.                       *)
(***************************************************************************)
EXTENDS Naturals, FiniteSets

CONSTANTS
    NumBatches,     \* batches 1 .. NumBatches are entered
    NumCircuits,    \* prover jobs of a batch, by sequence number
    Generators,     \* witness generator processes
    Provers         \* prover processes

ASSUME PipelineAssumption ==
    /\ NumBatches \in Nat \ {0}
    /\ NumCircuits \in Nat \ {0}
    /\ Generators \intersect Provers = {}

VARIABLES
    details,    \* proof_generation_details.status, "none" without a row
    late,       \* picked batches whose prover_taken_at is too old
    blobs,      \* prepare_witness_<n>.bin in the object store
    versions,   \* prover_fri_protocol_versions has a row
    inputs,     \* witness_inputs_fri: status and attempts
    jobs,       \* prover_jobs_fri: status and attempts
    proofs,     \* proof_<n>.bin, written by a prover
    l1Proofs,   \* l1_batch_proof_<n>.bin, written by the server
    fetch,      \* the gateway's ProofGenDataFetcher
    submit,     \* the gateway's ProofSubmitter
    worker,     \* what each worker process does
    panicked,   \* the submitter read a row it cannot send
    faulty      \* requests may still get lost and processes be killed

vars == <<details, late, blobs, versions, inputs, jobs, proofs, l1Proofs,
          fetch, submit, worker, panicked, faulty>>

Batches == 1 .. NumBatches
Circuits == 1 .. NumCircuits
Workers == Generators \union Provers

Final == {"generated", "skipped"}
DetailStatus == {"none", "ready_to_be_proven", "picked_by_prover"} \union Final
JobStatus == {"none", "queued", "in_progress", "successful", "failed",
              "skipped", "sent_to_server"}
Row == [status : JobStatus, attempts : Nat]
NoRow == [status |-> "none", attempts |-> 0]

Least(S) == CHOOSE x \in S : \A y \in S : x <= y

\* A client or a worker that has nothing in hand.
Idle == [at |-> "idle", batch |-> 0, circuit |-> 0]
Down == [at |-> "down", batch |-> 0, circuit |-> 0]
At(place, b) == [at |-> place, batch |-> b, circuit |-> 0]

Init ==
    /\ details = [b \in Batches |-> "none"]
    /\ late = {}
    /\ blobs = [b \in Batches |-> "none"]
    /\ versions = FALSE
    /\ inputs = [b \in Batches |-> NoRow]
    /\ jobs = [b \in Batches |-> [c \in Circuits |-> NoRow]]
    /\ proofs = {}
    /\ l1Proofs = {}
    /\ fetch = Idle
    /\ submit = Idle
    /\ worker = [w \in Workers |-> Down]
    /\ panicked = FALSE
    /\ faulty = TRUE

server == <<details, late>>
tables == <<versions, inputs, jobs>>
flags == <<panicked, faulty>>
-----------------------------------------------------------------------------
(***************************************************************************)
(* The file-backed object store: a write truncates the file first, and a   *)
(* reader fails on what it cannot decode.                                  *)
(***************************************************************************)
put_raw(b, content) == blobs' = [blobs EXCEPT ![b] = content]
get(b) == blobs[b] = "whole"

(***************************************************************************)
(* The statements on witness_inputs_fri and prover_jobs_fri that end a job *)
(* update a row by its key, whatever its status is by then.                *)
(***************************************************************************)
mark_witness_job(b, status) == inputs' = [inputs EXCEPT ![b].status = status]
mark_witness_job_as_successful(b) ==
    inputs' = [inputs EXCEPT ![b].status = "successful"]
mark_witness_job_failed(b) == inputs' = [inputs EXCEPT ![b].status = "failed"]

save_proof(b, c) == jobs' = [jobs EXCEPT ![b][c].status = "successful"]
save_proof_error(b, c) == jobs' = [jobs EXCEPT ![b][c].status = "failed"]
mark_proof_sent_to_server(b) ==
    jobs' = [jobs EXCEPT ![b] = [c \in Circuits |->
               IF @[c].status = "none" THEN @[c]
               ELSE [@[c] EXCEPT !.status = "sent_to_server"]]]
-----------------------------------------------------------------------------
(***************************************************************************)
(* The server.                                                             *)
(***************************************************************************)
\* The metadata calculator stores the witness and enters the batches in order.
EnterBatch(b) ==
    /\ details[b] = "none"
    /\ \A a \in 1 .. b - 1 : details[a] # "none"
    /\ put_raw(b, "whole")
    /\ details' = [details EXCEPT ![b] = "ready_to_be_proven"]
    /\ UNCHANGED <<late, tables, proofs, l1Proofs, fetch, submit, worker,
                   flags>>

\* proof_generation_timeout passes.
TimeOut(b) ==
    /\ details[b] = "picked_by_prover"
    /\ b \notin late
    /\ late' = late \union {b}
    /\ UNCHANGED <<details, blobs, tables, proofs, l1Proofs, fetch, submit,
                   worker, flags>>

ToBeProven_AnyLate == {b \in Batches :
    details[b] = "ready_to_be_proven" \/ b \in late}


ToBeProven == {b \in Batches :
    \/ details[b] = "ready_to_be_proven"
    \/ details[b] = "picked_by_prover" /\ b \in late}

\* POST /proof_generation_data: the batch is taken first ...
GetNextBlockToBeProven ==
    /\ fetch.at = "asked"
    /\ ToBeProven # {}
    /\ LET b == Least(ToBeProven)
       IN  /\ details' = [details EXCEPT ![b] = "picked_by_prover"]
           /\ late' = late \ {b}
           /\ fetch' = At("picked", b)
    /\ UNCHANGED <<blobs, tables, proofs, l1Proofs, submit, worker, flags>>

NoBlockToBeProven ==
    /\ fetch.at = "asked"
    /\ ToBeProven = {}
    /\ fetch' = Idle
    /\ UNCHANGED <<server, blobs, tables, proofs, l1Proofs, submit, worker,
                   flags>>

\* ... then its blob is read: without it the answer is an error.
GetProofGenerationData ==
    /\ fetch.at = "picked"
    /\ fetch' = IF get(fetch.batch)
                  THEN At("answered", fetch.batch) ELSE Idle
    /\ UNCHANGED <<server, blobs, tables, proofs, l1Proofs, submit, worker,
                   flags>>

\* POST /submit_proof/<n> with a proof: first the blob ...
SubmitProof ==
    /\ submit.at = "proof"
    /\ l1Proofs' = l1Proofs \union {submit.batch}
    /\ submit' = At("stored", submit.batch)
    /\ UNCHANGED <<server, blobs, tables, proofs, fetch, worker, flags>>

\* ... then the status.
SaveProofArtifactsMetadata_First ==
    /\ submit.at = "proof"
    /\ details' = [details EXCEPT ![submit.batch] = "generated"]
    /\ submit' = At("stored", submit.batch)
    /\ UNCHANGED <<late, blobs, tables, proofs, l1Proofs, fetch, worker,
                   flags>>

SaveProofArtifactsMetadata ==
    /\ submit.at = "stored"
    /\ details' = [details EXCEPT ![submit.batch] = "generated"]
    /\ submit' = At("accepted", submit.batch)
    /\ UNCHANGED <<late, blobs, tables, proofs, l1Proofs, fetch, worker,
                   flags>>

\* The same request without a proof.
MarkProofGenerationJobAsSkipped ==
    /\ submit.at = "no_proof"
    /\ details' = [details EXCEPT ![submit.batch] = "skipped"]
    /\ submit' = At("accepted", submit.batch)
    /\ UNCHANGED <<late, blobs, tables, proofs, l1Proofs, fetch, worker,
                   flags>>
-----------------------------------------------------------------------------
(***************************************************************************)
(* The gateway.  A loop that gets no answer logs the error and asks again  *)
(* after its poll interval.                                                *)
(***************************************************************************)
Fetch ==
    /\ fetch.at = "idle"
    /\ fetch' = At("asked", 0)
    /\ UNCHANGED <<server, blobs, tables, proofs, l1Proofs, submit, worker,
                   flags>>

\* save_proof_gen_data writes the blob again, into the file it came from.
PutBlob ==
    /\ fetch.at = "answered"
    /\ put_raw(fetch.batch, "torn")
    /\ fetch' = At("writing", fetch.batch)
    /\ UNCHANGED <<server, tables, proofs, l1Proofs, submit, worker, flags>>

\* The rows follow.
SaveProofGenData_Requeue ==
    /\ fetch.at = "writing"
    /\ put_raw(fetch.batch, "whole")
    /\ versions' = TRUE
    /\ inputs' = [inputs EXCEPT ![fetch.batch].status = "queued"]
    /\ fetch' = Idle
    /\ UNCHANGED <<server, jobs, proofs, l1Proofs, submit, worker, flags>>

SaveProofGenData ==
    /\ fetch.at = "writing"
    /\ put_raw(fetch.batch, "whole")
    /\ versions' = TRUE
    /\ inputs' = [inputs EXCEPT ![fetch.batch].status =
                     IF @ = "none" THEN "queued" ELSE @]
    /\ fetch' = Idle
    /\ UNCHANGED <<server, jobs, proofs, l1Proofs, submit, worker, flags>>

\* The batches with a row whose outcome has not been sent.
Unsent == {b \in Batches :
             \E c \in Circuits : jobs[b][c].status \in {"successful", "skipped"}}

\* get_least_proven_block_number_not_sent_to_server reads any row of the
\* least such batch; the submitter panics on one it cannot send, and the
\* gateway ends.
NextSubmitProofRequest ==
    /\ submit.at = "idle"
    /\ Unsent # {}
    /\ LET b == Least(Unsent)
       IN  \E c \in {d \in Circuits : jobs[b][d].status # "none"} :
             CASE jobs[b][c].status = "successful" /\ b \in proofs ->
                    /\ submit' = At("proof", b)
                    /\ UNCHANGED <<fetch, panicked>>
               [] jobs[b][c].status = "skipped" ->
                    /\ submit' = At("no_proof", b)
                    /\ UNCHANGED <<fetch, panicked>>
               [] OTHER ->
                    /\ submit' = Idle
                    /\ fetch' = Idle
                    /\ panicked' = TRUE
    /\ UNCHANGED <<server, blobs, tables, proofs, l1Proofs, worker, faulty>>

\* handle_response: every row of the batch is marked.
MarkProofSentToServer ==
    /\ submit.at = "accepted"
    /\ mark_proof_sent_to_server(submit.batch)
    /\ submit' = Idle
    /\ UNCHANGED <<server, blobs, versions, inputs, proofs, l1Proofs, fetch,
                   worker, flags>>

\* A request fails, before or after the server acted on it, or half-way.
LoseFetch ==
    /\ faulty
    /\ fetch.at \in {"asked", "picked", "answered"}
    /\ fetch' = Idle
    /\ UNCHANGED <<server, blobs, tables, proofs, l1Proofs, submit, worker,
                   flags>>

LoseSubmit ==
    /\ faulty
    /\ submit.at \in {"proof", "stored", "no_proof", "accepted"}
    /\ submit' = Idle
    /\ UNCHANGED <<server, blobs, tables, proofs, l1Proofs, fetch, worker,
                   flags>>

\* The gateway is killed and starts again.
RestartGateway ==
    /\ faulty
    /\ fetch # Idle \/ submit # Idle
    /\ fetch' = Idle
    /\ submit' = Idle
    /\ UNCHANGED <<server, blobs, tables, proofs, l1Proofs, worker, flags>>
-----------------------------------------------------------------------------
(***************************************************************************)
(* The workers: get_next_job takes a queued row in one statement; only     *)
(* save_result and save_failure touch it afterwards.                       *)
(***************************************************************************)
\* A generator reads the protocol versions once and panics without any.
StartGenerator(g) ==
    /\ worker[g].at = "down"
    /\ versions
    /\ worker' = [worker EXCEPT ![g] = Idle]
    /\ UNCHANGED <<server, blobs, tables, proofs, l1Proofs, fetch, submit,
                   flags>>

StartProver(p) ==
    /\ worker[p].at = "down"
    /\ worker' = [worker EXCEPT ![p] = Idle]
    /\ UNCHANGED <<server, blobs, tables, proofs, l1Proofs, fetch, submit,
                   flags>>

\* Stopped, out of iterations, or killed.
StopWorker(w) ==
    /\ faulty
    /\ worker[w].at # "down"
    /\ worker' = [worker EXCEPT ![w] = Down]
    /\ UNCHANGED <<server, blobs, tables, proofs, l1Proofs, fetch, submit,
                   flags>>

Taken(row) == [status |-> "in_progress", attempts |-> row.attempts + 1]

QueuedInputs == {b \in Batches : inputs[b].status = "queued"}

GetNextBasicCircuitWitnessJob(g) ==
    /\ worker[g].at = "idle"
    /\ QueuedInputs # {}
    /\ LET b == Least(QueuedInputs)
       IN  /\ inputs' = [inputs EXCEPT ![b] = Taken(@)]
           /\ worker' = [worker EXCEPT ![g] = At("reading", b)]
    /\ UNCHANGED <<server, blobs, versions, jobs, proofs, l1Proofs, fetch,
                   submit, flags>>

\* A file that is just being written cannot be decoded: the process ends.
GetArtifacts(g) ==
    /\ worker[g].at = "reading"
    /\ worker' = [worker EXCEPT ![g] =
                    IF get(@.batch) THEN At("working", @.batch)
                    ELSE Down]
    /\ UNCHANGED <<server, blobs, tables, proofs, l1Proofs, fetch, submit,
                   flags>>

\* The input of a batch needs the root hash of the batch before it, whose
\* metadata is stored before its row is entered; without it the task panics.
InputBuilt(b) == \A a \in 1 .. b - 1 : details[a] # "none"

\* The witness is generated ...
UpdateDatabase(g) ==
    /\ worker[g].at = "working"
    /\ InputBuilt(worker[g].batch)
    /\ mark_witness_job_as_successful(worker[g].batch)
    /\ worker' = [worker EXCEPT ![g] = Idle]
    /\ UNCHANGED <<server, blobs, versions, jobs, proofs, l1Proofs, fetch,
                   submit, flags>>

\* ... or the batch is not one of those sampled for proving ...
MarkWitnessJob(g) ==
    /\ worker[g].at = "working"
    /\ mark_witness_job(worker[g].batch, "skipped")
    /\ worker' = [worker EXCEPT ![g] = Idle]
    /\ UNCHANGED <<server, blobs, versions, jobs, proofs, l1Proofs, fetch,
                   submit, flags>>

\* ... or the task that generates it panicked.
MarkWitnessJobFailed(g) ==
    /\ worker[g].at = "working"
    /\ mark_witness_job_failed(worker[g].batch)
    /\ worker' = [worker EXCEPT ![g] = Idle]
    /\ UNCHANGED <<server, blobs, versions, jobs, proofs, l1Proofs, fetch,
                   submit, flags>>

\* insert_prover_jobs: the jobs of a batch with a witness, one by one.  Nobody
\* calls it in the present code.
InsertProverJob(b, c) ==
    /\ inputs[b].status = "successful"
    /\ jobs[b][c].status = "none"
    /\ \A d \in 1 .. c - 1 : jobs[b][d].status # "none"
    /\ jobs' = [jobs EXCEPT ![b][c].status = "queued"]
    /\ UNCHANGED <<server, blobs, versions, inputs, proofs, l1Proofs, fetch,
                   submit, worker, flags>>

\* External: a batch nobody works on yet is not to be proved after all.
SkipProverJobs(b) ==
    /\ \A c \in Circuits : jobs[b][c].status = "queued"
    /\ jobs' = [jobs EXCEPT ![b] =
                  [c \in Circuits |-> [@[c] EXCEPT !.status = "skipped"]]]
    /\ UNCHANGED <<server, blobs, versions, inputs, proofs, l1Proofs, fetch,
                   submit, worker, flags>>

QueuedJobs(b) == {c \in Circuits : jobs[b][c].status = "queued"}
BatchesWithJobs == {b \in Batches : QueuedJobs(b) # {}}

GetNextJob(p) ==
    /\ worker[p].at = "idle"
    /\ BatchesWithJobs # {}
    /\ LET b == Least(BatchesWithJobs)
           c == Least(QueuedJobs(b))
       IN  /\ jobs' = [jobs EXCEPT ![b][c] = Taken(@)]
           /\ worker' = [worker EXCEPT ![p] =
                           [at |-> "working", batch |-> b, circuit |-> c]]
    /\ UNCHANGED <<server, blobs, versions, inputs, proofs, l1Proofs, fetch,
                   submit, flags>>

\* The proof, verified by the prover itself, is stored under the batch ...
PutProof(p) ==
    /\ worker[p].at = "working"
    /\ proofs' = proofs \union {worker[p].batch}
    /\ worker' = [worker EXCEPT ![p].at = "proved"]
    /\ UNCHANGED <<server, blobs, tables, l1Proofs, fetch, submit, flags>>

\* ... and only then is the job finished.
SaveProof(p) ==
    /\ worker[p].at = "proved"
    /\ save_proof(worker[p].batch, worker[p].circuit)
    /\ worker' = [worker EXCEPT ![p] = Idle]
    /\ UNCHANGED <<server, blobs, versions, inputs, proofs, l1Proofs, fetch,
                   submit, flags>>

SaveProofError(p) ==
    /\ worker[p].at = "working"
    /\ save_proof_error(worker[p].batch, worker[p].circuit)
    /\ worker' = [worker EXCEPT ![p] = Idle]
    /\ UNCHANGED <<server, blobs, versions, inputs, proofs, l1Proofs, fetch,
                   submit, flags>>
-----------------------------------------------------------------------------
Server ==
    \/ \E b \in Batches : EnterBatch(b) \/ TimeOut(b)
    \/ GetNextBlockToBeProven \/ NoBlockToBeProven \/ GetProofGenerationData
    \/ SubmitProof \/ SaveProofArtifactsMetadata
    \/ MarkProofGenerationJobAsSkipped

Gateway ==
    \/ Fetch \/ PutBlob \/ SaveProofGenData
    \/ NextSubmitProofRequest \/ MarkProofSentToServer
    \/ LoseFetch \/ LoseSubmit \/ RestartGateway

Work ==
    \/ \E w \in Workers : StopWorker(w)
    \/ \E g \in Generators :
         \/ StartGenerator(g) \/ GetNextBasicCircuitWitnessJob(g)
         \/ GetArtifacts(g) \/ UpdateDatabase(g)
         \/ MarkWitnessJob(g) \/ MarkWitnessJobFailed(g)
    \/ \E b \in Batches : SkipProverJobs(b)
    \/ \E b \in Batches, c \in Circuits : InsertProverJob(b, c)
    \/ \E p \in Provers : \/ StartProver(p) \/ GetNextJob(p) \/ PutProof(p)
                          \/ SaveProof(p) \/ SaveProofError(p)

\* From here on no request is lost and no process is stopped.
FaultsEnd ==
    /\ faulty
    /\ faulty' = FALSE
    /\ UNCHANGED <<server, blobs, tables, proofs, l1Proofs, fetch, submit,
                   worker, panicked>>

Next == Server \/ Gateway \/ Work \/ FaultsEnd

(***************************************************************************)
(* Both loops of the gateway and the workers poll for ever, and whoever is *)
(* stopped is started again.  The failures come to an end, at a time       *)
(* nobody knows.  Nothing forces a failure, a skip, a batch to be entered  *)
(* or a prover job to be inserted.                                         *)
(*                                                                         *)
(* The time-out is long, 18000 seconds where the gateway polls every 100:  *)
(* while fewer than 180 batches are out, the server again and again gives  *)
(* an answer when no batch before b is late.                               *)
(***************************************************************************)
PromptAnswer(b) ==
    /\ \A a \in late \cap (1 .. b - 1) : details[a] # "picked_by_prover"
    /\ GetNextBlockToBeProven \/ NoBlockToBeProven

Fairness ==
    /\ \A b \in Batches : []<><<PromptAnswer(b)>>_vars
    /\ WF_vars(FaultsEnd)
    /\ \A b \in Batches : WF_vars(TimeOut(b))
    /\ WF_vars(Fetch \/ NoBlockToBeProven \/ GetNextBlockToBeProven
                 \/ GetProofGenerationData \/ PutBlob \/ SaveProofGenData)
    /\ WF_vars(NextSubmitProofRequest \/ SubmitProof
                 \/ SaveProofArtifactsMetadata
                 \/ MarkProofGenerationJobAsSkipped \/ MarkProofSentToServer)
    /\ \A g \in Generators :
         WF_vars(StartGenerator(g) \/ GetNextBasicCircuitWitnessJob(g)
                   \/ GetArtifacts(g) \/ UpdateDatabase(g))
    /\ \A p \in Provers :
         WF_vars(StartProver(p) \/ GetNextJob(p) \/ PutProof(p)
                   \/ SaveProof(p))

Spec == Init /\ [][Next]_vars

FairSpec == Spec /\ Fairness
-----------------------------------------------------------------------------
(***************************************************************************)
(* Properties.                                                             *)
(***************************************************************************)
Clients(places) == [at : places, batch : 0 .. NumBatches, circuit : {0}]
WorkerState == [at : {"down", "idle", "reading", "working", "proved"},
                batch : 0 .. NumBatches, circuit : 0 .. NumCircuits]

\* Every row, file, request and worker is in a state the code knows.
TypeOK ==
    /\ details \in [Batches -> DetailStatus]
    /\ late \subseteq {b \in Batches : details[b] # "ready_to_be_proven"}
    /\ blobs \in [Batches -> {"none", "torn", "whole"}]
    /\ versions \in BOOLEAN
    /\ inputs \in [Batches -> Row]
    /\ jobs \in [Batches -> [Circuits -> Row]]
    /\ proofs \subseteq Batches
    /\ l1Proofs \subseteq Batches
    /\ fetch \in Clients({"idle", "asked", "picked", "answered", "writing"})
    /\ submit \in Clients({"idle", "proof", "stored", "no_proof", "accepted"})
    /\ worker \in [Workers -> WorkerState]
    /\ panicked \in BOOLEAN
    /\ faulty \in BOOLEAN

Holds(w, b, c) == worker[w].batch = b /\ worker[w].circuit = c

\* However often the server hands a batch out, a job is worked on once and by
\* one process: get_next_job never returns a job to two processes, and a batch
\* that comes a second time does not queue its job again.
OneWorkerPerJob ==
    /\ \A b \in Batches :
         /\ inputs[b].attempts <= 1
         /\ \A c \in Circuits : jobs[b][c].attempts <= 1
    /\ \A v, w \in Workers :
         /\ worker[v].batch # 0
         /\ worker[v].batch = worker[w].batch
         /\ worker[v].circuit = worker[w].circuit
         => v = w

\* A batch the server calls generated has its proof in the object store, and
\* a job marked as sent is one whose batch the server has settled: a proof
\* whose submission failed half-way is not forgotten by the gateway.
SentWasReceived ==
    \A b \in Batches :
      /\ details[b] = "generated" => b \in l1Proofs
      /\ (\E c \in Circuits : jobs[b][c].status = "sent_to_server")
           => details[b] \in Final

\* A batch nothing works on any more: its row is failed, skipped or taken by
\* a process that is gone, or its blob was left half-written.
Abandoned(b, c) == \A w \in Workers : ~Holds(w, b, c)
Lost(b) ==
    \/ inputs[b].status \in {"failed", "skipped"}
    \/ inputs[b].status = "in_progress" /\ Abandoned(b, 0)
    \/ blobs[b] = "torn" /\ ~(fetch.at = "writing" /\ fetch.batch = b)
    \/ \E c \in Circuits :
         \/ jobs[b][c].status = "failed"
         \/ jobs[b][c].status = "in_progress" /\ Abandoned(b, c)

\* The batch has its witness and nobody has inserted its prover jobs.
AwaitsProverJobs(b) ==
    /\ inputs[b].status = "successful"
    /\ \A c \in Circuits : jobs[b][c].status = "none"


\* The pipeline is what the server is promised: no batch is settled without a
\* proof of it, none is proved after it was settled or skipped, and a settled
\* batch stays settled, for all the repeated hand-outs and submissions.
Task == INSTANCE ProofTask WITH
    state <- [b \in Batches |->
                CASE details[b] = "none" -> "absent"
                  [] details[b] \in Final -> details[b]
                  [] OTHER -> "wanted"],
    proved <- proofs
ImplementsProofTask == Task!Spec

=============================================================================
