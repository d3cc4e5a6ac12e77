---------------------------- MODULE UpdateProofs ----------------------------
(***************************************************************************)
(* Proofs about Update for any number of uploads, any time limit and any   *)
(* number of pieces: something whole always runs, a trial has a way back,  *)
(* and what was given up does not get another trial.                       *)
(***************************************************************************)
EXTENDS Update, TLAPS

-----------------------------------------------------------------------------
(***************************************************************************)
(* The inductive invariant.                                                *)
(***************************************************************************)

Images  == [id : 0..MaxUploads, kind : Kinds, whole : BOOLEAN, state : States]
Uploads == [at : {"idle", "receive", "choose"}, id : 0..MaxUploads, kind : Kinds,
            left : 0..Pieces, stalls : 0..MaxStalls]

\* The types, those of the histories included.
Types ==
  /\ TypeOK
  /\ up \in Uploads /\ uploads \in 0..MaxUploads
  /\ rejected \subseteq 0..uploads /\ late \in BOOLEAN

\* Each upload is an image of its own; before the first there is only one
\* image, and no entry for it.
Numbered ==
  /\ \A s \in Slots : slot[s].id <= uploads
  /\ uploads > 0 => slot[0].id # slot[1].id
  /\ uploads = 0 => up.at = "idle" /\ \A s \in Slots : slot[s].state = "undefined"

\* What may yet be put on trial has not been given up: an image chosen, and one
\* that may still be chosen.
NewIsFresh ==
  /\ \A s \in Slots : slot[s].state = "new" => slot[s].id \notin rejected
  /\ up.at # "idle" => slot[Target].id \notin rejected

TrialIsPending == trial => slot[run].state = "pending"

\* The image that runs was kept, or the other one was; and while there is an
\* upload into the other slot, it is this one.
OneKept ==
  /\ slot[run].state \in {"undefined", "valid", "pending", "invalid"}
  /\ slot[run].state \in {"pending", "invalid"} => Kept(Other(run))
  /\ up.at # "idle" => Kept(run)

IInv ==
  /\ Types /\ NeverBricked /\ Numbered /\ NewIsFresh
  /\ TrialIsPending /\ RejectedStaysAway
  /\ late \/ OneKept
  /\ slot[run].state = "pending" => up.at = "idle"

-----------------------------------------------------------------------------
\* There are two slots, the one that runs and the target.
LEMMA TwoSlots ==
  ASSUME IInv
  PROVE  /\ run \in Slots /\ Target \in Slots /\ Target # run
         /\ Slots = {run, Target} /\ Target = Other(run) /\ Other(Target) = run
         /\ slot \in [Slots -> Images]
<1>1. run \in Slots
  BY DEF IInv, Types, TypeOK, NeverBricked, Running
<1>2. slot \in [Slots -> Images]
  BY DEF IInv, Types, TypeOK, Images
<1>3. QED
  BY <1>1, <1>2 DEF Slots, Target, Other

\* The initial states satisfy the inductive invariant.
LEMMA Initial == Init => IInv
<1> SUFFICES ASSUME Init PROVE IInv
  OBVIOUS
<1> USE UpdateAssumption
<1>1. /\ latest = 0 /\ run = 0 /\ trial = FALSE /\ age = 0 /\ reach = FALSE
      /\ up = NoUpload /\ restart = FALSE /\ uploads = 0 /\ rejected = {}
      /\ late = FALSE
  BY DEF Init
<1>2. /\ slot \in [Slots -> Images]
      /\ \A s \in Slots : slot[s].id = 0 /\ slot[s].state = "undefined"
      /\ slot[0].whole
  <2>1. \A s \in Slots : [id |-> 0, kind |-> "good", whole |-> s = 0,
                         state |-> "undefined"] \in Images
    BY DEF Images, States, Kinds
  <2>2. slot[0] = [id |-> 0, kind |-> "good", whole |-> 0 = 0, state |-> "undefined"]
    BY DEF Init, Slots
  <2>3. slot[0].whole = (0 = 0)
    BY <2>2
  <2>4. QED BY <2>1, <2>3 DEF Init
<1>3. Types
  <2>1. up \in Uploads
    BY <1>1 DEF Uploads, NoUpload, Kinds
  <2>2. /\ trial \in BOOLEAN /\ reach \in BOOLEAN /\ restart \in BOOLEAN
        /\ late \in BOOLEAN
    BY <1>1
  <2>3. latest \in Slots /\ run \in Slots /\ age \in 0..TrialTime
    BY <1>1 DEF Slots
  <2>4. TypeOK
    BY <1>2, <2>1, <2>2, <2>3 DEF TypeOK, Images, Uploads
  <2>5. rejected \subseteq 0..uploads /\ uploads \in 0..MaxUploads
    BY <1>1
  <2>6. QED BY <2>1, <2>2, <2>4, <2>5 DEF Types
<1>4. NeverBricked
  BY <1>1, <1>2 DEF NeverBricked, Running, NoSlot
<1>5. Numbered /\ NewIsFresh
  BY <1>1, <1>2 DEF Numbered, NewIsFresh, NoUpload, Slots
<1>6. OneKept
  BY <1>1, <1>2 DEF OneKept, NoUpload, Slots
<1>7. slot[run].state # "pending"
  BY <1>1, <1>2 DEF Slots
<1>8. QED
  BY <1>1, <1>3, <1>4, <1>5, <1>6, <1>7
  DEF IInv, TrialIsPending, RejectedStaysAway

\* A step of the server or the main loop that leaves the running image, the
\* entries and what was given up alone.
LEMMA SlotsStay ==
  ASSUME IInv, UNCHANGED <<slot, run, rejected, late, uploads>>,
         Types', up'.at # "idle" => up.at # "idle",
         trial' => trial
  PROVE  IInv'
<1>1. NeverBricked' /\ TrialIsPending' /\ RejectedStaysAway' /\ Numbered'
  BY DEF IInv, NeverBricked, Running, TrialIsPending, RejectedStaysAway, Numbered
<1>2. NewIsFresh'
  BY DEF IInv, NewIsFresh, Target
<1>3. OneKept => OneKept'
  BY DEF OneKept, Kept
<1>4. QED
  BY <1>1, <1>2, <1>3 DEF IInv

LEMMA ReachStep == IInv /\ Reach => IInv'
<1> SUFFICES ASSUME IInv, Reach PROVE IInv'
  OBVIOUS
<1>1. Types'
  BY DEF IInv, Types, TypeOK, Reach, Running, Images
<1>2. QED
  BY <1>1, SlotsStay DEF Reach

LEMMA ReceiveStep == IInv /\ (Receive \/ Stall \/ Abort) => IInv'
<1> SUFFICES ASSUME IInv, Receive \/ Stall \/ Abort PROVE IInv'
  OBVIOUS
<1>1. up \in Uploads /\ Types
  BY DEF IInv, Types
<1>2. up' \in Uploads
  <2>1. CASE Receive
    <3>1. up.left - 1 \in 0..Pieces /\ 0 \in 0..MaxStalls
      BY <1>1, <2>1, UpdateAssumption DEF Receive, Uploads
    <3>2. up' = [up EXCEPT !.left = up.left - 1, !.stalls = 0]
      BY <2>1 DEF Receive
    <3>3. QED BY <1>1, <3>1, <3>2 DEF Uploads
  <2>2. CASE Stall
    BY <1>1, <2>2, UpdateAssumption DEF Stall, Uploads
  <2>3. CASE Abort
    BY <1>1, <2>3, UpdateAssumption DEF Abort, Uploads, NoUpload, Kinds
  <2>4. QED BY <2>1, <2>2, <2>3
<1>3. /\ UNCHANGED <<slot, latest, run, trial, age, reach, restart, uploads, rejected, late>>
      /\ up.at = "receive"
  BY DEF Receive, Stall, Abort
<1>4. Types'
  BY <1>1, <1>2, <1>3 DEF Types, TypeOK, Uploads
<1>5. QED
  BY <1>3, <1>4, SlotsStay

LEMMA UploadBeginStep == IInv /\ UploadBegin => IInv'
<1> SUFFICES ASSUME IInv, UploadBegin PROVE IInv'
  OBVIOUS
<1> USE UpdateAssumption
<1>1. /\ run \in Slots /\ Target \in Slots /\ Target # run
      /\ Slots = {run, Target} /\ Target = Other(run)
      /\ slot \in [Slots -> Images]
  BY TwoSlots
<1>2. PICK k \in Kinds :
        up' = [at |-> "receive", id |-> uploads + 1, kind |-> k, left |-> Pieces, stalls |-> 0]
  BY DEF UploadBegin
<1>3. uploads \in Nat /\ uploads < MaxUploads /\ uploads' = uploads + 1
  BY DEF UploadBegin, IInv, Types
<1>4. /\ slot' \in [Slots -> Images]
      /\ slot'[run] = slot[run]
      /\ slot'[Target] = [slot[Target] EXCEPT !.whole = FALSE, !.id = uploads + 1, !.kind = k]
  <2>1. slot' = [slot EXCEPT ![Target] =
                    [slot[Target] EXCEPT !.whole = FALSE, !.id = uploads + 1, !.kind = k]]
    BY <1>1, <1>2 DEF UploadBegin
  <2>2. slot[Target] \in Images /\ uploads + 1 \in 0..MaxUploads
    BY <1>1, <1>3
  <2>3. [slot[Target] EXCEPT !.whole = FALSE, !.id = uploads + 1, !.kind = k] \in Images
    BY <2>2 DEF Images
  <2>4. QED BY <1>1, <2>1, <2>3
<1>5. UNCHANGED <<latest, run, trial, age, reach, restart, rejected>> /\ Target' = Target
  BY DEF UploadBegin, Target
<1>6. Types'
  <2>1. up' \in Uploads
    BY <1>2, <1>3 DEF Uploads
  <2>2. late' \in BOOLEAN
    BY DEF UploadBegin, IInv, Types
  <2>3. TypeOK'
    BY <1>4, <1>5, <2>1 DEF IInv, Types, TypeOK, Images, Uploads
  <2>4. rejected' \subseteq 0..uploads'
    BY <1>3, <1>5 DEF IInv, Types
  <2>5. QED BY <1>3, <2>1, <2>2, <2>3, <2>4 DEF Types
<1>7. NeverBricked'
  BY <1>4, <1>5 DEF IInv, NeverBricked, Running
<1>8. Numbered'
  <2>1. slot[run].id <= uploads /\ slot[run].id \in Nat
    BY <1>1 DEF IInv, Numbered, Images
  <2>2. slot'[Target].id = uploads + 1 /\ slot'[run].id = slot[run].id
    BY <1>1, <1>4 DEF Images
  <2>3. slot'[0].id # slot'[1].id
    BY <1>1, <1>3, <2>1, <2>2 DEF Slots
  <2>4. QED BY <1>1, <1>3, <2>1, <2>2, <2>3 DEF Numbered
<1>9. NewIsFresh'
  <2>1. uploads + 1 \notin rejected
    BY <1>3 DEF IInv, Types
  <2>2. slot'[Target].id = uploads + 1 /\ slot'[run] = slot[run]
    BY <1>1, <1>4 DEF Images
  <2>3. QED BY <1>1, <1>5, <2>1, <2>2 DEF NewIsFresh, IInv
<1>10. TrialIsPending' /\ RejectedStaysAway'
  BY <1>4, <1>5 DEF IInv, TrialIsPending, RejectedStaysAway
<1>11. late' \/ OneKept'
  <2>1. CASE late \/ slot[run].state = "invalid"
    BY <2>1 DEF UploadBegin
  <2>2. CASE OneKept /\ slot[run].state # "invalid"
    <3>1. slot[run].state \in {"undefined", "valid"} /\ slot[run].whole
      BY <2>2 DEF OneKept, UploadBegin, IInv, NeverBricked
    <3>2. QED BY <1>4, <1>5, <3>1 DEF OneKept, Kept
  <2>3. QED BY <2>1, <2>2 DEF IInv
<1>12. slot'[run'].state # "pending"
  BY <1>4, <1>5 DEF UploadBegin
<1>13. QED BY <1>6, <1>7, <1>8, <1>9, <1>10, <1>11, <1>12 DEF IInv

\* What a write of one entry changes, and what it does not.
LEMMA EntryWritten ==
  ASSUME IInv, NEW s \in Slots, NEW st \in States,
         slot' = [slot EXCEPT ![s].state = st]
  PROVE  /\ slot' \in [Slots -> Images]
         /\ slot'[s].state = st
         /\ \A r \in Slots : /\ slot'[r].id = slot[r].id
                             /\ slot'[r].whole = slot[r].whole
                             /\ r # s => slot'[r] = slot[r]
<1>1. slot \in [Slots -> Images]
  BY TwoSlots
<1>2. slot' = [slot EXCEPT ![s] = [slot[s] EXCEPT !.state = st]]
  OBVIOUS
<1>3. slot[s] \in Images
  BY <1>1
<1>4. /\ [slot[s] EXCEPT !.state = st] \in Images
      /\ [slot[s] EXCEPT !.state = st].state = st
      /\ [slot[s] EXCEPT !.state = st].id = slot[s].id
      /\ [slot[s] EXCEPT !.state = st].whole = slot[s].whole
  BY <1>3 DEF Images
<1>5. QED BY <1>1, <1>2, <1>4

LEMMA UploadEndStep == IInv /\ UploadEnd => IInv'
<1> SUFFICES ASSUME IInv, UploadEnd PROVE IInv'
  OBVIOUS
<1>1. UNCHANGED <<latest, run, trial, age, reach, restart, uploads, rejected, late>>
  BY DEF UploadEnd
<1>2. up \in Uploads /\ up.at = "receive" /\ Types
  BY DEF UploadEnd, IInv, Types
<1>3. CASE up' = NoUpload /\ UNCHANGED slot
  <2>1. up' \in Uploads /\ up'.at = "idle"
    BY <1>3, UpdateAssumption DEF Uploads, NoUpload, Kinds
  <2>2. Types'
    BY <1>1, <1>2, <1>3, <2>1 DEF Types, TypeOK, Uploads
  <2>3. QED BY <1>1, <1>3, <2>1, <2>2, SlotsStay
<1>4. CASE /\ up' = [up EXCEPT !.at = "choose"]
           /\ slot' = [slot EXCEPT ![Target].whole = TRUE]
  <2>1. /\ run \in Slots /\ Target \in Slots /\ Target # run
        /\ Slots = {run, Target} /\ Target = Other(run)
        /\ slot \in [Slots -> Images]
    BY TwoSlots
  <2>2. slot' = [slot EXCEPT ![Target] = [slot[Target] EXCEPT !.whole = TRUE]]
    BY <1>4
  <2>3. [slot[Target] EXCEPT !.whole = TRUE] \in Images
    BY <2>1 DEF Images
  <2>4. /\ slot' \in [Slots -> Images]
        /\ slot'[run] = slot[run]
        /\ slot'[Target].id = slot[Target].id
        /\ slot'[Target].state = slot[Target].state
    BY <2>1, <2>2, <2>3 DEF Images
  <2>5. up' \in Uploads /\ up'.at # "idle"
    BY <1>2, <1>4 DEF Uploads
  <2>6. Target' = Target
    BY <1>1 DEF Target
  <2>7. Types'
    BY <1>1, <1>2, <2>4, <2>5 DEF Types, TypeOK, Images, Uploads
  <2>8. NeverBricked' /\ TrialIsPending' /\ RejectedStaysAway'
    BY <1>1, <2>4 DEF IInv, NeverBricked, Running, TrialIsPending, RejectedStaysAway
  <2>9. Numbered'
    BY <1>1, <1>2, <2>1, <2>4 DEF IInv, Numbered, Slots
  <2>10. NewIsFresh'
    BY <1>1, <1>2, <2>1, <2>4, <2>6 DEF IInv, NewIsFresh
  <2>11. OneKept => OneKept'
    BY <1>1, <1>2, <2>1, <2>4 DEF OneKept, Kept
  <2>12. slot'[run'].state # "pending"
    BY <1>1, <1>2, <2>4 DEF IInv
  <2>13. QED
    BY <1>1, <2>7, <2>8, <2>9, <2>10, <2>11, <2>12 DEF IInv
<1>5. QED BY <1>3, <1>4 DEF UploadEnd

LEMMA ChooseStep == IInv /\ Choose => IInv'
<1> SUFFICES ASSUME IInv, Choose PROVE IInv'
  OBVIOUS
<1>1. /\ UNCHANGED <<run, trial, age, reach, uploads, rejected, late>>
      /\ up' = NoUpload /\ up.at = "choose"
  BY DEF Choose
<1>2. up' \in Uploads /\ up'.at = "idle"
  BY <1>1, UpdateAssumption DEF Uploads, NoUpload, Kinds
<1>3. CASE UNCHANGED <<slot, latest, restart>>
  <2>1. Types'
    BY <1>1, <1>2, <1>3 DEF IInv, Types, TypeOK, Uploads
  <2>2. QED BY <1>1, <1>2, <1>3, <2>1, SlotsStay
<1>4. CASE /\ slot' = [slot EXCEPT ![Target].state = "new"]
           /\ latest' = Target /\ restart' = TRUE
  <2>1. /\ run \in Slots /\ Target \in Slots /\ Target # run
        /\ Slots = {run, Target} /\ Target = Other(run)
    BY TwoSlots
  <2>2. /\ slot' \in [Slots -> Images]
        /\ slot'[Target].state = "new"
        /\ \A r \in Slots : /\ slot'[r].id = slot[r].id
                            /\ slot'[r].whole = slot[r].whole
        /\ slot'[run] = slot[run]
    BY <1>4, <2>1, EntryWritten DEF States
  <2>3. restart' \in BOOLEAN
    BY <1>4
  <2>4. Types'
    BY <1>1, <1>2, <1>4, <2>1, <2>2, <2>3 DEF IInv, Types, TypeOK, Images, Uploads
  <2>5. NeverBricked' /\ TrialIsPending' /\ RejectedStaysAway'
    BY <1>1, <2>2 DEF IInv, NeverBricked, Running, TrialIsPending, RejectedStaysAway
  <2>6. Numbered'
    BY <1>1, <2>1, <2>2 DEF IInv, Numbered, Slots
  <2>7. NewIsFresh'
    BY <1>1, <1>2, <2>1, <2>2 DEF IInv, NewIsFresh
  <2>8. OneKept => OneKept'
    BY <1>1, <1>2, <2>2 DEF OneKept, Kept
  <2>9. QED BY <1>1, <1>2, <2>4, <2>5, <2>6, <2>7, <2>8 DEF IInv
<1>5. QED BY <1>3, <1>4 DEF Choose

\* A trial is of an image that was uploaded, and nothing is uploaded meanwhile.
LEMMA OnTrial ==
  ASSUME IInv, trial
  PROVE  /\ slot[run].state = "pending" /\ up.at = "idle"
         /\ uploads > 0 /\ slot[run].id # slot[Target].id
         /\ late \/ Kept(Target)
<1>1. slot[run].state = "pending" /\ up.at = "idle"
  BY DEF IInv, TrialIsPending
<1>2. /\ run \in Slots /\ Target \in Slots /\ Target # run /\ Target = Other(run)
      /\ uploads \in Nat
  BY TwoSlots, UpdateAssumption DEF IInv, Types
<1>3. uploads > 0
  BY <1>1, <1>2 DEF IInv, Numbered
<1>4. slot[run].id # slot[Target].id
  BY <1>2, <1>3 DEF IInv, Numbered, Slots
<1>5. QED BY <1>1, <1>2, <1>3, <1>4 DEF IInv, OneKept

LEMMA ConfirmStep == IInv /\ Confirm => IInv'
<1> SUFFICES ASSUME IInv, Confirm PROVE IInv'
  OBVIOUS
<1>1. /\ UNCHANGED <<latest, run, age, reach, up, restart, uploads, rejected, late>>
      /\ trial /\ trial' = FALSE
  BY DEF Confirm
<1>2. trial' \in BOOLEAN /\ ~trial'
  BY <1>1
<1>3. CASE UNCHANGED slot
  <2>1. Types'
    BY <1>1, <1>2, <1>3 DEF IInv, Types, TypeOK
  <2>2. QED BY <1>1, <1>2, <1>3, <2>1, SlotsStay
<1>4. CASE slot' = [slot EXCEPT ![run].state = "valid"]
  <2>1. /\ run \in Slots /\ Target \in Slots /\ Target # run
        /\ Slots = {run, Target} /\ Target' = Target
    BY <1>1, TwoSlots DEF Target
  <2>2. /\ slot' \in [Slots -> Images]
        /\ slot'[run].state = "valid"
        /\ \A r \in Slots : /\ slot'[r].id = slot[r].id
                            /\ slot'[r].whole = slot[r].whole
        /\ slot'[Target] = slot[Target]
    BY <1>4, <2>1, EntryWritten DEF States
  <2>3. Types'
    BY <1>1, <1>2, <2>2 DEF IInv, Types, TypeOK, Images
  <2>4. NeverBricked' /\ TrialIsPending' /\ RejectedStaysAway'
    BY <1>1, <1>2, <2>1, <2>2
    DEF IInv, NeverBricked, Running, TrialIsPending, RejectedStaysAway
  <2>5. Numbered'
    BY <1>1, <2>1, <2>2, OnTrial DEF IInv, Numbered, Slots
  <2>6. NewIsFresh'
    BY <1>1, <2>1, <2>2 DEF IInv, NewIsFresh
  <2>7. OneKept'
    BY <1>1, <2>2, OnTrial DEF OneKept
  <2>8. QED BY <1>1, <2>2, <2>3, <2>4, <2>5, <2>6, <2>7 DEF IInv
<1>5. QED BY <1>3, <1>4 DEF Confirm

LEMMA RollBackStep == IInv /\ RollBack => IInv'
<1> SUFFICES ASSUME IInv, RollBack PROVE IInv'
  OBVIOUS
<1>1. /\ UNCHANGED <<latest, run, age, reach, up, uploads, late>>
      /\ trial /\ trial' = FALSE
  BY DEF RollBack
<1>2. trial' \in BOOLEAN /\ ~trial'
  BY <1>1
<1>3. CASE UNCHANGED <<slot, rejected, restart>>
  <2>1. Types'
    BY <1>1, <1>2, <1>3 DEF IInv, Types, TypeOK
  <2>2. QED BY <1>1, <1>2, <1>3, <2>1, SlotsStay
<1>4. CASE /\ slot' = [slot EXCEPT ![run].state = "invalid"]
           /\ rejected' = rejected \cup {slot[run].id}
           /\ restart' = TRUE
  <2>1. /\ run \in Slots /\ Target \in Slots /\ Target # run
        /\ Slots = {run, Target} /\ Target' = Target /\ Target = Other(run)
        /\ slot \in [Slots -> Images]
    BY <1>1, TwoSlots DEF Target
  <2>2. /\ slot' \in [Slots -> Images]
        /\ slot'[run].state = "invalid"
        /\ \A r \in Slots : /\ slot'[r].id = slot[r].id
                            /\ slot'[r].whole = slot[r].whole
        /\ slot'[Target] = slot[Target]
    BY <1>4, <2>1, EntryWritten DEF States
  <2>3. Types'
    <3>1. TypeOK'
      <4>1. restart' \in BOOLEAN
        BY <1>4
      <4>2. QED BY <1>1, <1>2, <2>2, <4>1 DEF IInv, Types, TypeOK, Images
    <3>2. rejected' \subseteq 0..uploads'
      <4>1. slot[run].id \in 0..uploads
        BY <2>1, UpdateAssumption DEF IInv, Numbered, Images, Types
      <4>2. QED BY <1>1, <1>4, <4>1 DEF IInv, Types
    <3>3. QED BY <1>1, <3>1, <3>2 DEF IInv, Types
  <2>4. NeverBricked' /\ TrialIsPending' /\ RejectedStaysAway'
    BY <1>1, <1>2, <2>1, <2>2
    DEF IInv, NeverBricked, Running, TrialIsPending, RejectedStaysAway
  <2>5. Numbered'
    BY <1>1, <2>1, <2>2, OnTrial DEF IInv, Numbered, Slots
  <2>6. NewIsFresh'
    <3>1. \A s \in Slots : slot'[s].state = "new" => slot'[s].id \notin rejected'
      BY <1>1, <1>4, <2>1, <2>2, OnTrial DEF IInv, NewIsFresh
    <3>2. up'.at = "idle"
      BY <1>1, OnTrial
    <3>3. QED BY <3>1, <3>2 DEF NewIsFresh
  <2>7. late \/ OneKept'
    BY <1>1, <2>1, <2>2, OnTrial DEF OneKept, Kept, Other
  <2>8. QED BY <1>1, <2>2, <2>3, <2>4, <2>5, <2>6, <2>7 DEF IInv
<1>5. QED BY <1>3, <1>4 DEF RollBack

LEMMA PassStep == IInv /\ Pass => IInv'
<1> SUFFICES ASSUME IInv, Pass PROVE IInv'
  OBVIOUS
<1>1. age' \in 0..TrialTime
  BY UpdateAssumption DEF Pass, IInv, Types, TypeOK
<1>2. Types'
  BY <1>1 DEF Pass, IInv, Types, TypeOK
<1>3. QED BY <1>2, SlotsStay DEF Pass

-----------------------------------------------------------------------------
(***************************************************************************)
(* A start: Boot is the whole of the bootloader's work.                    *)
(***************************************************************************)

\* The states a start leaves behind: what was on trial is aborted, and a new
\* image that is taken goes on trial.
Begun ==
  LET taken == Taken(Abandoned)
  IN  IF Abandoned[taken] = "new" THEN [Abandoned EXCEPT ![taken] = "pending"] ELSE Abandoned

Chosen == Taken(Abandoned)

\* What each entry may become, and which image gets to run.
LEMMA BootOutcome ==
  ASSUME IInv, Boot
  PROVE  /\ Chosen \in Slots /\ run' = Loaded(Chosen)
         /\ run' \in Slots /\ slot[run'].whole
         /\ slot[Chosen].whole => run' = Chosen
         /\ slot' \in [Slots -> Images]
         /\ \A s \in Slots : /\ slot'[s].id = slot[s].id
                             /\ slot'[s].whole = slot[s].whole
                             /\ slot'[s].state = Begun[s]
         /\ \A s \in Slots :
              \/ /\ slot[s].state = "pending" /\ Begun[s] = "aborted"
              \/ /\ slot[s].state = "new" /\ s = Chosen /\ Begun[s] = "pending"
              \/ /\ slot[s].state # "pending" /\ Begun[s] = slot[s].state
                 /\ s = Chosen => slot[s].state # "new"
<1>1. /\ run \in Slots /\ Target \in Slots /\ Target # run
      /\ Slots = {run, Target} /\ Target = Other(run)
      /\ slot \in [Slots -> Images]
      /\ slot[run].whole
  BY TwoSlots DEF IInv, NeverBricked
<1>2. latest \in Slots /\ Other(latest) \in Slots
  BY DEF IInv, Types, TypeOK, Slots, Other
<1>3. Chosen \in Slots
  BY <1>2 DEF Chosen, Taken
<1>4. /\ run' = Loaded(Chosen)
      /\ slot' = [s \in Slots |-> [slot[s] EXCEPT !.state = Begun[s]]]
  BY DEF Boot, Chosen, Begun
<1>5. \/ Chosen = run
      \/ Chosen = Target /\ Other(Chosen) = run
  BY <1>1, <1>3 DEF Slots, Other, Target
<1>6. run' \in Slots /\ slot[run'].whole /\ (slot[Chosen].whole => run' = Chosen)
  BY <1>1, <1>3, <1>4, <1>5 DEF Loaded
<1>7. /\ Abandoned \in [Slots -> States]
      /\ \A s \in Slots : slot[s].state = "pending" => Abandoned[s] = "aborted"
      /\ \A s \in Slots : slot[s].state # "pending" => Abandoned[s] = slot[s].state
  BY <1>1 DEF Abandoned, Images, States
<1>8. /\ Begun \in [Slots -> States]
      /\ \A s \in Slots : s # Chosen \/ Abandoned[s] # "new" => Begun[s] = Abandoned[s]
      /\ \A s \in Slots : s = Chosen /\ Abandoned[s] = "new" => Begun[s] = "pending"
  BY <1>3, <1>7 DEF Begun, Chosen, States
<1>9. ASSUME NEW s \in Slots
      PROVE  /\ [slot[s] EXCEPT !.state = Begun[s]] \in Images
             /\ [slot[s] EXCEPT !.state = Begun[s]].state = Begun[s]
             /\ [slot[s] EXCEPT !.state = Begun[s]].id = slot[s].id
             /\ [slot[s] EXCEPT !.state = Begun[s]].whole = slot[s].whole
  <2>1. slot[s] \in Images /\ Begun[s] \in States
    BY <1>1, <1>8
  <2>2. QED BY <2>1 DEF Images
<1>10. /\ slot' \in [Slots -> Images]
       /\ \A s \in Slots : /\ slot'[s].id = slot[s].id
                           /\ slot'[s].whole = slot[s].whole
                           /\ slot'[s].state = Begun[s]
  BY <1>4, <1>9
<1>11. ASSUME NEW s \in Slots
       PROVE  \/ /\ slot[s].state = "pending" /\ Begun[s] = "aborted"
              \/ /\ slot[s].state = "new" /\ s = Chosen /\ Begun[s] = "pending"
              \/ /\ slot[s].state # "pending" /\ Begun[s] = slot[s].state
                 /\ s = Chosen => slot[s].state # "new"
  BY <1>7, <1>8
<1>12. QED BY <1>3, <1>4, <1>6, <1>10, <1>11

LEMMA BootStep == IInv /\ (Restart \/ PowerCut) => IInv'
<1> SUFFICES ASSUME IInv, Boot PROVE IInv'
  BY DEF Restart, PowerCut
<1>1. /\ run \in Slots /\ Target \in Slots /\ Target # run
      /\ Slots = {run, Target} /\ Target = Other(run)
      /\ slot \in [Slots -> Images] /\ uploads \in Nat
  BY TwoSlots, UpdateAssumption DEF IInv, Types
<1>2. /\ Chosen \in Slots
      /\ run' \in Slots /\ slot[run'].whole
      /\ slot[Chosen].whole => run' = Chosen
      /\ slot' \in [Slots -> Images]
      /\ \A s \in Slots : /\ slot'[s].id = slot[s].id
                          /\ slot'[s].whole = slot[s].whole
                          /\ slot'[s].state = Begun[s]
  BY BootOutcome
<1>3. \A s \in Slots :
        \/ /\ slot[s].state = "pending" /\ Begun[s] = "aborted"
        \/ /\ slot[s].state = "new" /\ s = Chosen /\ Begun[s] = "pending"
        \/ /\ slot[s].state # "pending" /\ Begun[s] = slot[s].state
           /\ s = Chosen => slot[s].state # "new"
  BY BootOutcome
<1>4. /\ age' = 0 /\ reach' = FALSE /\ up' = NoUpload /\ restart' = FALSE
      /\ UNCHANGED <<latest, uploads, late>>
      /\ rejected' = rejected \cup
           {slot[s].id : s \in {r \in Slots : slot[r].state = "pending" /\ slot[r].whole}}
      /\ trial' = (run' # NoSlot /\ Begun[run'] = "pending")
  BY DEF Boot, Begun
<1>5. up'.at = "idle" /\ up' \in Uploads
  BY <1>4, UpdateAssumption DEF NoUpload, Uploads, Kinds
<1>6. Types'
  <2>1. trial' \in BOOLEAN /\ reach' \in BOOLEAN /\ restart' \in BOOLEAN
    BY <1>4
  <2>2. age' \in 0..TrialTime
    BY <1>4, UpdateAssumption
  <2>3. TypeOK'
    BY <1>2, <1>4, <1>5, <2>1, <2>2 DEF IInv, Types, TypeOK, Images, Uploads
  <2>4. \A s \in Slots : slot[s].id \in 0..uploads
    BY <1>1 DEF IInv, Numbered, Images
  <2>5. rejected' \subseteq 0..uploads'
    BY <1>4, <2>4 DEF IInv, Types
  <2>6. QED BY <1>4, <1>5, <2>3, <2>5 DEF IInv, Types
<1>7. NeverBricked'
  BY <1>2 DEF NeverBricked, Running, NoSlot, Slots
<1>8. Numbered'
  BY <1>2, <1>3, <1>4, <1>5 DEF IInv, Numbered, Slots
\* A new image, or one that was new, is not among those given up now: it is
\* another image than the one whose trial was cut short.
<1>9. ASSUME NEW s \in Slots, slot[s].state = "new"
      PROVE  slot[s].id \notin rejected'
  <2>1. slot[s].id \notin rejected
    BY <1>9 DEF IInv, NewIsFresh
  <2>2. uploads > 0
    BY <1>1, <1>9 DEF IInv, Numbered
  <2>3. \A r \in Slots : slot[r].state = "pending" => slot[r].id # slot[s].id
    BY <1>9, <2>2 DEF IInv, Numbered, Slots
  <2>4. QED BY <1>4, <2>1, <2>3
<1>10. NewIsFresh'
  BY <1>2, <1>3, <1>5, <1>9 DEF NewIsFresh
<1>11. TrialIsPending'
  BY <1>2, <1>4 DEF TrialIsPending
<1>12. RejectedStaysAway'
  BY <1>2, <1>3, <1>4, <1>9 DEF RejectedStaysAway
<1>13. ASSUME OneKept PROVE OneKept'
  <2>1. Chosen = latest \/ Chosen = Other(latest)
    BY DEF Chosen, Taken
  <2>2. \A s \in Slots : Kept(s) => Begun[s] = slot[s].state
    BY <1>3 DEF Kept
  <2>3. CASE Kept(run)
    <3>1. CASE run' = run
      BY <1>2, <1>5, <2>2, <2>3, <3>1 DEF OneKept, Kept
    <3>2. CASE run' = Target
      <4>1. Chosen = Target
        BY <1>1, <1>2, <2>3, <3>2 DEF Kept
      <4>2. Abandoned[Chosen] \notin {"invalid", "aborted"}
        BY <1>1, <2>3, <4>1 DEF Chosen, Taken, Kept, Abandoned, Slots, Other, IInv, Types, TypeOK
      <4>3. slot[Target].state \notin {"pending", "invalid", "aborted"}
        BY <1>1, <4>1, <4>2 DEF Abandoned
      <4>4. Begun[Target] \in {"undefined", "valid", "pending"}
        BY <1>1, <1>3, <4>1, <4>3 DEF Images, States
      <4>5. Other(run') = run
        BY <1>1, <3>2 DEF Other, Slots
      <4>6. Kept(Other(run))'
        BY <1>1, <1>2, <2>2, <2>3, <4>5 DEF Kept
      <4>7. QED BY <1>2, <1>5, <3>2, <4>4, <4>6 DEF OneKept
    <3>3. QED BY <1>1, <1>2, <3>1, <3>2
  <2>4. CASE slot[run].state \in {"pending", "invalid"} /\ Kept(Target)
    <3>1. Abandoned[run] \in {"aborted", "invalid"}
      BY <1>1, <2>4 DEF Abandoned
    <3>2. Abandoned[Target] \in {"undefined", "valid"}
      BY <1>1, <2>4 DEF Abandoned, Kept
    <3>3. Chosen = Target
      BY <1>1, <3>1, <3>2 DEF Chosen, Taken, Slots, Other, IInv, Types, TypeOK
    <3>4. run' = Target /\ Begun[Target] \in {"undefined", "valid"}
      BY <1>1, <1>2, <2>2, <2>4, <3>3 DEF Kept
    <3>5. QED BY <1>1, <1>2, <1>5, <3>4 DEF OneKept
  <2>5. QED
    BY <1>1, <1>13, <2>3, <2>4 DEF OneKept, Kept, IInv, NeverBricked
<1>14. QED
  BY <1>4, <1>5, <1>6, <1>7, <1>8, <1>10, <1>11, <1>12, <1>13 DEF IInv

-----------------------------------------------------------------------------
(***************************************************************************)
(* The theorems                                                            *)
(***************************************************************************)

\* The invariant holds from the first start on, whatever the server, the main
\* loop, the bootloader and the power do.
THEOREM InductiveInvariant == Spec => []IInv
<1>1. Init => IInv
  BY Initial
<1>2. IInv /\ [Next]_vars => IInv'
  <2> SUFFICES ASSUME IInv, [Next]_vars PROVE IInv'
    OBVIOUS
  <2>1. CASE Reach
    BY <2>1, ReachStep
  <2>2. CASE WebServer
    BY <2>2, UploadBeginStep, ReceiveStep, UploadEndStep, ChooseStep DEF WebServer
  <2>3. CASE MainLoop
    BY <2>3, ConfirmStep, RollBackStep, PassStep DEF MainLoop
  <2>4. CASE Restart \/ PowerCut
    BY <2>4, BootStep
  <2>5. CASE UNCHANGED vars
    BY <2>5 DEF vars, IInv, Types, TypeOK, NeverBricked, Running, Numbered, NewIsFresh,
                Target, TrialIsPending, RejectedStaysAway, OneKept, Kept
  <2>6. QED BY <2>1, <2>2, <2>3, <2>4, <2>5 DEF Next
<1>3. QED BY <1>1, <1>2, PTL DEF Spec

\* "The device won't be bricked by a bad upload" (README.md): in every state
\* something whole runs; an image on trial has one that was kept to go back to,
\* unless an upload began while the restart of a refused one was to come; and
\* what was given up is never on trial again.
THEOREM SlotsStaySound == Spec => []SlotsSound
<1>1. IInv => SlotsSound
  <2> SUFFICES ASSUME IInv PROVE SlotsSound
    OBVIOUS
  <2>1. WayBack
    BY OnTrial, TwoSlots DEF WayBack
  <2>2. QED BY <2>1 DEF IInv, Types, SlotsSound
<1>2. QED BY <1>1, InductiveInvariant, PTL
=============================================================================
