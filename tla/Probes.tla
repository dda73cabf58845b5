------------------------------- MODULE Probes --------------------------------
(***************************************************************************)
(* The probe passes that read the fleet's software: the sbom pass          *)
(* (probe_pass.ts) sends a command to every box that is due, several at a  *)
(* time; the images pass (image_pass.ts) sends the registry images that    *)
(* are due to one scanner box, in batches.  Both count against one quota   *)
(* (quota.ts) with the probes of every other kind.  The row the newest     *)
(* images pass left in probe_passes decides what the next sbom pass asks   *)
(* of the boxes: everything, or only what they built themselves.           *)
(*                                                                         *)
(* An action is the code between two awaits.  From the quota check of a    *)
(* probe to its result (ssm.ts) nothing shared is written, so a probe is   *)
(* sent in one step and comes back, or fails, in another.  Time is what    *)
(* falls due: a box, an image, a row of the pass table, a counted probe.   *)
(***************************************************************************)
EXTENDS Integers, FiniteSets

CONSTANTS
    Boxes,          \* running boxes that SSM reaches, in the scope of the pass
    Images,         \* registry images the boxes run
    ImagesOf,       \* the images of a box
    Workers,        \* probes of the sbom pass out together
    MaxBatch,       \* images in one command to the scanner
    ProbesPerHour,  \* the quota
    MaxRestarts     \* bound

ASSUME ProbesAssumption ==
    /\ Boxes # {}
    /\ ImagesOf \in [Boxes -> SUBSET Images]
    /\ MaxBatch \in Nat \ {0} /\ ProbesPerHour \in Nat /\ MaxRestarts \in Nat

VARIABLES
    boxPass,      \* the process: the sbom pass
    worker,       \* the process: its workers
    imagesPass,   \* the process: the images pass
    imagesRow,    \* probe_passes: the newest row of an images pass that has ended
    attempts,     \* the process: probes sent in the last hour, probeAttempts
    stored,       \* instance_metrics: results collected in the last hour
    scanned,      \* image_sbom_scans: images with an ok scan inside the interval
    restarts

passes == <<boxPass, worker, imagesPass>>
tables == <<imagesRow, stored, scanned>>
vars == <<passes, tables, attempts, restarts>>

NoBox == CHOOSE b \in Boxes : TRUE
\* "denied": permission or no_credentials; "unreachable": not_managed; "failed": timeout,
\* bad output or any other error, and of a box also not_managed, which is no different there.
Codes == {"quota", "denied", "unreachable", "failed", "not_attempted"}
\* What stops a pass: the same for every box; and, of the scanner, for every batch.
StopsBoxes == {"quota", "denied"}
StopsImages == {"quota", "denied", "unreachable"}

BoxPassType == [at : {"idle", "gate", "probing"}, mode : {"all", "local"},
                candidates : SUBSET Boxes, queue : SUBSET Boxes, probed : SUBSET Boxes,
                code : [Boxes -> Codes \cup {"none"}]]
NoBoxPass == [at |-> "idle", mode |-> "all", candidates |-> {}, queue |-> {},
              probed |-> {}, code |-> [b \in Boxes |-> "none"]]
WorkerType == [at : {"idle", "out", "refused"}, box : Boxes]
IdleWorker == [at |-> "idle", box |-> NoBox]
ImagesPassType == [at : {"idle", "gate", "sending", "out"},
                   due : SUBSET Images, left : SUBSET Images, batch : SUBSET Images,
                   read : SUBSET Images, failed : BOOLEAN]
NoImagesPass == [at |-> "idle", due |-> {}, left |-> {}, batch |-> {},
                 read |-> {}, failed |-> FALSE]
\* The counts of the row, as what was counted; `recent`: within two intervals.
RowType == [candidates : SUBSET Images, probed : SUBSET Images, failed : BOOLEAN, recent : BOOLEAN]

TypeOK ==
    /\ boxPass \in BoxPassType
    /\ worker \in [Workers -> WorkerType]
    /\ imagesPass \in ImagesPassType
    /\ imagesRow \in RowType
    /\ attempts \in Nat /\ stored \in Nat
    /\ scanned \subseteq Images
    /\ restarts \in 0 .. MaxRestarts

Init ==
    /\ boxPass = NoBoxPass
    /\ worker = [w \in Workers |-> IdleWorker]
    /\ imagesPass = NoImagesPass
    /\ imagesRow = [candidates |-> {}, probed |-> {}, failed |-> FALSE, recent |-> FALSE]
    /\ attempts = 0 /\ stored = 0
    /\ scanned = {}
    /\ restarts = 0

-----------------------------------------------------------------------------
(* The quota, and the mode of the sbom pass. *)

MayProbe == attempts < ProbesPerHour /\ stored < ProbesPerHour

\* A row that says it read something, or that nothing was due.
SaysRead(r) == r.probed # {} \/ (r.candidates = {} /\ ~r.failed)

\* sbomImagesModeNow: the boxes leave the registry images to the scanner, or not.
ImagesMode == IF imagesRow.recent /\ SaysRead(imagesRow) THEN "local" ELSE "all"

-----------------------------------------------------------------------------
(* The sbom pass: run. *)

\* The cron, or a person.  A second start joins the first.
StartBoxes ==
    /\ boxPass.at = "idle"
    /\ boxPass' = [NoBoxPass EXCEPT !.at = "gate"]
    /\ UNCHANGED <<worker, imagesPass, tables, attempts, restarts>>

\* The credentials do not work.
BoxesSkipped ==
    /\ boxPass.at = "gate"
    /\ boxPass' = NoBoxPass
    /\ UNCHANGED <<worker, imagesPass, tables, attempts, restarts>>

\* probeTargets: those without a result inside the interval, or, when a person started
\* the pass, all.  Which have one is a matter of time.
BoxesSelected(due) ==
    /\ boxPass.at = "gate"
    /\ boxPass' = [boxPass EXCEPT !.at = "probing", !.mode = ImagesMode, !.candidates = due, !.queue = due]
    /\ UNCHANGED <<worker, imagesPass, tables, attempts, restarts>>

\* A worker takes the next box; probeInstance checks the quota before anything else.
TakeBox(w, b) ==
    /\ boxPass.at = "probing" /\ worker[w].at = "idle" /\ b \in boxPass.queue
    /\ boxPass' = [boxPass EXCEPT !.queue = @ \ {b}]
    /\ worker' = [worker EXCEPT ![w] = [at |-> IF MayProbe THEN "out" ELSE "refused", box |-> b]]
    /\ attempts' = IF MayProbe THEN attempts + 1 ELSE attempts
    /\ UNCHANGED <<imagesPass, tables, restarts>>

\* A result is stored.  A box that was asked for everything, and has syft, has read its
\* images, well or not.
BoxAnswers(w, syft, ok) ==
    LET b == worker[w].box  asked == IF syft /\ boxPass.mode = "all" THEN ImagesOf[b] ELSE {} IN
    /\ worker[w].at = "out"
    /\ boxPass' = [boxPass EXCEPT !.probed = @ \cup {b}]
    /\ worker' = [worker EXCEPT ![w] = IdleWorker]
    /\ stored' = stored + 1
    /\ scanned' = (scanned \ asked) \cup (ok \cap asked)
    /\ UNCHANGED <<imagesPass, imagesRow, attempts, restarts>>

\* Mutant: a full quota is taken for the trouble of one box.
Fails_quotaIsOneBox(w, c) ==
    LET b == worker[w].box  stop == c = "denied" IN
    /\ boxPass' = [boxPass EXCEPT
           !.queue = IF stop THEN {} ELSE @,
           !.code = [x \in Boxes |-> IF x = b THEN c
                                     ELSE IF stop /\ x \in boxPass.queue THEN "not_attempted" ELSE @[x]]]
    /\ worker' = [worker EXCEPT ![w] = IdleWorker]

\* Mutant: the rest of the queue is dropped without a word.
Fails_dropsTheRest(w, c) ==
    /\ boxPass' = [boxPass EXCEPT !.queue = IF c \in StopsBoxes THEN {} ELSE @, !.code[worker[w].box] = c]
    /\ worker' = [worker EXCEPT ![w] = IdleWorker]

\* The catch of a worker: what would stop every box leaves the rest not attempted.
Fails(w, c) ==
    LET b == worker[w].box  stop == c \in StopsBoxes IN
    /\ boxPass' = [boxPass EXCEPT
           !.queue = IF stop THEN {} ELSE @,
           !.code = [x \in Boxes |-> IF x = b THEN c
                                     ELSE IF stop /\ x \in boxPass.queue THEN "not_attempted" ELSE @[x]]]
    /\ worker' = [worker EXCEPT ![w] = IdleWorker]

BoxFails(w, c) ==
    /\ worker[w].at = "out" /\ c \in {"denied", "failed"} /\ Fails(w, c)
    /\ UNCHANGED <<imagesPass, tables, attempts, restarts>>

BoxRefused(w) ==
    /\ worker[w].at = "refused" /\ Fails(w, "quota")
    /\ UNCHANGED <<imagesPass, tables, attempts, restarts>>

\* Every worker found the queue empty.
BoxesDone ==
    /\ boxPass.at = "probing" /\ boxPass.queue = {}
    /\ \A w \in Workers : worker[w].at = "idle"
    /\ boxPass' = NoBoxPass
    /\ UNCHANGED <<worker, imagesPass, tables, attempts, restarts>>

-----------------------------------------------------------------------------
(* The images pass: runImages, imagePass. *)

StartImages ==
    /\ imagesPass.at = "idle"
    /\ imagesPass' = [NoImagesPass EXCEPT !.at = "gate"]
    /\ UNCHANGED <<boxPass, worker, tables, attempts, restarts>>

\* finishPass: the row becomes the newest that has ended.
Ends(candidates, probed, failed) ==
    /\ imagesRow' = [candidates |-> candidates, probed |-> probed, failed |-> failed, recent |-> TRUE]
    /\ imagesPass' = NoImagesPass

\* Mutant: a pass that was skipped counts no failure.
ImagesSkipped_silently ==
    /\ imagesPass.at = "gate" /\ Ends({}, {}, FALSE)
    /\ UNCHANGED <<boxPass, worker, stored, scanned, attempts, restarts>>

\* The credentials do not work: one failure, "skipped".
ImagesSkipped ==
    /\ imagesPass.at = "gate" /\ Ends({}, {}, TRUE)
    /\ UNCHANGED <<boxPass, worker, stored, scanned, attempts, restarts>>

DueImages(force) == IF force THEN Images ELSE Images \ scanned

NothingDue(force) ==
    /\ imagesPass.at = "gate" /\ DueImages(force) = {} /\ Ends({}, {}, FALSE)
    /\ UNCHANGED <<boxPass, worker, stored, scanned, attempts, restarts>>

ImagesSelected(force) ==
    /\ imagesPass.at = "gate" /\ DueImages(force) # {}
    /\ imagesPass' = [imagesPass EXCEPT !.at = "sending", !.due = DueImages(force), !.left = DueImages(force)]
    /\ UNCHANGED <<boxPass, worker, tables, attempts, restarts>>

SendBatch(batch) ==
    /\ imagesPass.at = "sending" /\ MayProbe
    /\ batch \subseteq imagesPass.left /\ batch # {} /\ Cardinality(batch) <= MaxBatch
    /\ imagesPass' = [imagesPass EXCEPT !.at = "out", !.batch = batch, !.left = @ \ batch]
    /\ attempts' = attempts + 1
    /\ UNCHANGED <<boxPass, worker, tables, restarts>>

\* The answer says of each image whether it was read.
BatchAnswers(ok) ==
    LET batch == imagesPass.batch IN
    /\ imagesPass.at = "out" /\ ok \subseteq batch
    /\ imagesPass' = [imagesPass EXCEPT !.at = "sending", !.batch = {}, !.read = @ \cup ok,
                                        !.failed = @ \/ ok # batch]
    /\ stored' = stored + 1
    /\ scanned' = (scanned \ batch) \cup ok
    /\ UNCHANGED <<boxPass, worker, imagesRow, attempts, restarts>>

\* An answer without syft ends the pass.
SyftMissing ==
    /\ imagesPass.at = "out"
    /\ Ends(imagesPass.due, imagesPass.read, TRUE)
    /\ stored' = stored + 1
    /\ UNCHANGED <<boxPass, worker, scanned, attempts, restarts>>

\* A command that failed or timed out is noted, and the next batch goes.
BatchFails ==
    /\ imagesPass.at = "out"
    /\ imagesPass' = [imagesPass EXCEPT !.at = "sending", !.batch = {}, !.failed = TRUE]
    /\ UNCHANGED <<boxPass, worker, tables, attempts, restarts>>

\* A failure of the scanner itself, or a full quota, ends the pass.
ScannerUnusable(c) ==
    /\ c \in StopsImages
    /\ IF c = "quota" THEN imagesPass.at = "sending" /\ imagesPass.left # {} /\ ~MayProbe
                      ELSE imagesPass.at = "out"
    /\ Ends(imagesPass.due, imagesPass.read, TRUE)
    /\ UNCHANGED <<boxPass, worker, stored, scanned, attempts, restarts>>

ImagesDone ==
    /\ imagesPass.at = "sending" /\ imagesPass.left = {}
    /\ Ends(imagesPass.due, imagesPass.read, imagesPass.failed)
    /\ UNCHANGED <<boxPass, worker, stored, scanned, attempts, restarts>>

-----------------------------------------------------------------------------
(* Everything else. *)

\* A probe of another kind, from a pass, a page or the agent: stored or not.
OtherProbe(ok) ==
    /\ MayProbe
    /\ attempts' = attempts + 1
    /\ stored' = IF ok THEN stored + 1 ELSE stored
    /\ UNCHANGED <<passes, imagesRow, scanned, restarts>>

\* Mutant: attempts are shifted off an empty list.
AttemptExpires_unguarded ==
    /\ attempts' = attempts - 1
    /\ UNCHANGED <<passes, tables, restarts>>

\* An hour after it a probe counts no more, as an attempt and as a result.
AttemptExpires ==
    /\ attempts > 0 /\ attempts' = attempts - 1
    /\ UNCHANGED <<passes, tables, restarts>>

ResultExpires ==
    /\ stored > 0 /\ stored' = stored - 1
    /\ UNCHANGED <<passes, imagesRow, scanned, attempts, restarts>>

\* The interval of an image, or two of the newest row, is over.
ImageFallsDue(i) ==
    /\ i \in scanned /\ scanned' = scanned \ {i}
    /\ UNCHANGED <<passes, imagesRow, stored, attempts, restarts>>

RowAges ==
    /\ imagesRow.recent /\ imagesRow' = [imagesRow EXCEPT !.recent = FALSE]
    /\ UNCHANGED <<passes, stored, scanned, attempts, restarts>>

\* Passes and attempts are gone.  An images pass that was running had its row, with
\* every count still zero; probe_log.ts ends it when the process starts again, at the time
\* it began, which may be long ago.
Restart ==
    /\ restarts < MaxRestarts /\ restarts' = restarts + 1
    /\ boxPass' = NoBoxPass /\ worker' = [w \in Workers |-> IdleWorker]
    /\ imagesPass' = NoImagesPass /\ attempts' = 0
    /\ IF imagesPass.at = "idle" THEN UNCHANGED imagesRow
       ELSE \E r \in BOOLEAN :
               imagesRow' = [candidates |-> {}, probed |-> {}, failed |-> FALSE, recent |-> r]
    /\ UNCHANGED <<stored, scanned>>

BoxesStep ==
    \/ StartBoxes \/ BoxesSkipped \/ BoxesDone
    \/ \E due \in SUBSET Boxes : BoxesSelected(due)
    \/ \E w \in Workers :
          \/ \E b \in Boxes : TakeBox(w, b)
          \/ \E syft \in BOOLEAN, ok \in SUBSET Images : BoxAnswers(w, syft, ok)
          \/ \E c \in Codes : BoxFails(w, c)
          \/ BoxRefused(w)

ImagesStep ==
    \/ StartImages \/ ImagesSkipped
    \/ \E force \in BOOLEAN : NothingDue(force) \/ ImagesSelected(force)
    \/ \E batch \in SUBSET Images : SendBatch(batch)
    \/ \E ok \in SUBSET Images : BatchAnswers(ok)
    \/ SyftMissing \/ BatchFails
    \/ \E c \in Codes : ScannerUnusable(c)
    \/ ImagesDone

Next ==
    \/ BoxesStep
    \/ ImagesStep
    \/ \E ok \in BOOLEAN : OtherProbe(ok)
    \/ AttemptExpires \/ ResultExpires \/ RowAges
    \/ \E i \in Images : ImageFallsDue(i)
    \/ Restart

Spec == Init /\ [][Next]_vars

TakesBox(b) == \E w \in Workers : TakeBox(w, b)
\* A box reads every image it is asked for.
ReadsWell(b) == \E w \in Workers : worker[w].box = b /\ BoxAnswers(w, TRUE, Images)

\* Each pass goes on: crons come round, commands answer or time out.  Strong: the
\* credentials work again and again with all boxes due (the cron's interval is the boxes'),
\* no box with images comes last in every pass, and each reads well at times.
FairSpec ==
    /\ Spec
    /\ WF_vars(BoxesStep) /\ WF_vars(ImagesStep)
    /\ SF_vars(BoxesSelected(Boxes))
    /\ \A b \in {x \in Boxes : ImagesOf[x] # {}} : SF_vars(TakesBox(b)) /\ SF_vars(ReadsWell(b))

-----------------------------------------------------------------------------
(* Properties. *)

InHand == {worker[w].box : w \in {v \in Workers : worker[v].at # "idle"}}
FailedBoxes == {b \in Boxes : boxPass.code[b] # "none"}

\* "The summary's counts add up to the candidates" (probe_pass.ts): however workers
\* overlap and whatever stops the pass, each candidate waits, is with one worker, was
\* probed or failed, and only one of these.
PassAddsUp ==
    /\ boxPass.candidates = boxPass.queue \cup InHand \cup boxPass.probed \cup FailedBoxes
    /\ boxPass.queue \cap (InHand \cup boxPass.probed \cup FailedBoxes) = {}
    /\ InHand \cap (boxPass.probed \cup FailedBoxes) = {}
    /\ boxPass.probed \cap FailedBoxes = {}
    /\ \A v, w \in Workers :
          worker[v].at # "idle" /\ worker[w].at # "idle" /\ worker[v].box = worker[w].box => v = w

\* "The same for every instance: stop early" (probe_pass.ts): after a refused permission or
\* a full quota no other box is taken, by any worker.
FatalStops == (\E b \in Boxes : boxPass.code[b] \in StopsBoxes) => boxPass.queue = {}

\* "A scanner that is away or failing never leaves the registry images unread"
\* (sbomImagesModeNow), of the one that is away: once it is silent, and while the quota
\* refuses no box, the boxes read them, again each time they fall due.
ReadWithoutScanner ==
    \A i \in Images :
        <>[][\A ok \in SUBSET Images : ~BatchAnswers(ok)]_vars /\ <>[](\A w \in Workers : worker[w].at # "refused")
        => []<>(i \in scanned)
=============================================================================
