--------------------------- MODULE MediaIngestion ---------------------------
(*************************************************************************)
(* Uploads of images: the reservation of an idempotency key, the spool    *)
(* and its scan, the promotion of a clean spool under a publication       *)
(* lease, and the staged object that becomes the artifact of an evidence  *)
(* row. An upload runs in a thread; each transaction is one step of it,   *)
(* and so is each change of the quarantine store that another upload or   *)
(* a crash may fall between.                                              *)
(*                                                                       *)
(* Time is not counted: a reservation, a publication lease and a spool    *)
(* may expire at any moment. The quarantine of a promoted source outlives *)
(* the reservation (3600 s and 900 s), so its expiry changes nothing.     *)
(*************************************************************************)
EXTENDS Naturals, FiniteSets

CONSTANTS Uploads,   \* calls of ingest, retries included
          Keys,      \* idempotency keys
          SessionOf, \* the session of each key; all sessions are of one owner
          Bodies,    \* what may be uploaded: a fingerprint each
          ImageOf,   \* what a body is normalized to
          MaxItems,  \* images of one session
          MaxImages, \* distinct images of one session
          MaxFaults  \* bound: crashes and failed steps, together

None == "none"
Sessions == {SessionOf[k] : k \in Keys}
Images == {ImageOf[b] : b \in Bodies}

ASSUME MediaAssumption ==
    /\ SessionOf \in [Keys -> Sessions] /\ ImageOf \in [Bodies -> Images]
    /\ None \notin Keys \cup Uploads \cup Bodies \cup Images
    /\ IsFiniteSet(Keys) /\ IsFiniteSet(Uploads) /\ IsFiniteSet(Images)
    /\ MaxItems \in Nat /\ MaxImages \in Nat /\ MaxFaults \in Nat

VARIABLES
    pc,       \* where each upload is
    key, body,\* what it is of
    resumed,  \* uploads that go on from a clean receipt and read nothing
    seen,     \* what an earlier outcome, when it was read, asked of the upload
    gate,     \* its cancellation gate
    on,       \* the upload whose staged object its reference intent names
    reply,
    res,      \* res[k]: the reservation of key k, or NoRes
    art,      \* art[i]: the artifact row of image i, or NoArt
    evidence, \* keys whose reservation has its evidence row
    attempt,  \* attempt[k]: the recorded scan of k
    receipt,  \* receipt[k]: the pending clean receipt of k, or NoReceipt
    clean,    \* keys with an active clean receipt
    spool,    \* spool[u]: the scan spool of u
    formal,   \* formal[k]: which files of the promoted source exist
    object,   \* object[u]: the media object u staged
    lock,     \* lock[s]: the upload that holds the run lock of session s
    faults    \* counter for the bound

rows == <<res, art, evidence>>
scans == <<attempt, receipt, clean>>
files == <<spool, formal, object>>
upload == <<key, body, resumed, seen, on>>
vars == <<pc, upload, gate, reply, rows, scans, files, lock, faults>>

Steps == {"idle", "replay", "publish", "read", "reserve", "again", "spool", "scan", "claim",
          "refresh", "open", "payload", "record", "commit", "mark", "activate", "validate",
          "stage", "lock", "finalize", "follow", "refer", "confirm", "done"}
Whole == {"payload", "record", "commit"}
NoRes == [status |-> None, body |-> None, old |-> FALSE, intent |-> None, mode |-> None,
          staged |-> None]
NoArt == [state |-> None, by |-> None]
NoReceipt == [status |-> None, owner |-> None, lapsed |-> FALSE, spool |-> None]
Held == {"ACTIVE", "PENDING_REFERENCE"}

Init ==
    /\ pc = [u \in Uploads |-> "idle"] /\ key = [u \in Uploads |-> None]
    /\ body = [u \in Uploads |-> None] /\ resumed = {}
    /\ seen = [u \in Uploads |-> None]
    /\ gate = [u \in Uploads |-> "open"] /\ on = [u \in Uploads |-> None]
    /\ reply = [u \in Uploads |-> None]
    /\ res = [k \in Keys |-> NoRes] /\ art = [i \in Images |-> NoArt] /\ evidence = {}
    /\ attempt = [k \in Keys |-> None] /\ receipt = [k \in Keys |-> NoReceipt] /\ clean = {}
    /\ spool = [u \in Uploads |-> None] /\ formal = [k \in Keys |-> {}]
    /\ object = [u \in Uploads |-> None]
    /\ lock = [s \in Sessions |-> None] /\ faults = 0

Go(u, p) == pc' = [pc EXCEPT ![u] = p]
Image(k) == ImageOf[res[k].body]
Freed(u) == [s \in Sessions |-> IF lock[s] = u THEN None ELSE lock[s]]
Answer(u, what) ==
    /\ Go(u, "done") /\ reply' = [reply EXCEPT ![u] = what] /\ lock' = Freed(u)

\* A step the upload was cancelled before.
Active(u) == gate[u] # "cancelled"

Dropped(u) == [spool EXCEPT ![u] = None]
Aborted(u) == IF object[u] = "staged" THEN [object EXCEPT ![u] = None] ELSE object

\* An exception that a retry may mend: spool and receipt stay for it.
Pend(u) ==
    /\ Answer(u, "pending") /\ object' = Aborted(u) /\ UNCHANGED <<res, spool>>

\* Any other one, before the finalize has committed: the key is given up.
GivenUpAlways(k) ==                                                   \* mutant
    [res EXCEPT ![k].status = IF res[k].old THEN "EXPIRED" ELSE "REJECTED"]
GivenUp(k) ==
    IF res[k].status # "ACTIVE" THEN res
    ELSE [res EXCEPT ![k].status = IF res[k].old THEN "EXPIRED" ELSE "REJECTED"]
Fail(u) ==
    /\ Answer(u, "error") /\ object' = Aborted(u) /\ spool' = Dropped(u)
    /\ res' = GivenUp(key[u])

\* A bad scan that could not be recorded is taken to have rejected the key all the same.
Unrejected(u) ==
    /\ Answer(u, "error") /\ spool' = Dropped(u) /\ UNCHANGED <<res, object>>
-----------------------------------------------------------------------------
(* Reservation and replay *)

Start(u) ==
    /\ pc[u] = "idle" /\ Go(u, "replay")
    /\ \E k \in Keys, b \in Bodies :
          key' = [key EXCEPT ![u] = k] /\ body' = [body EXCEPT ![u] = b]
    /\ UNCHANGED <<resumed, seen, on, gate, reply, rows, scans, files, lock, faults>>

\* _replay_locked_reservation: a follower of an artifact that is referenced by now is
\* completed by whoever looks.
Follows(k) ==
    /\ res[k].status = "PENDING_REFERENCE" /\ res[k].intent = "ABORT"
    /\ art[Image(k)].state = "REFERENCED"
Completed(k, mode) == [res EXCEPT ![k].status = "COMPLETED", ![k].mode = mode]
LookUp(k) ==
    IF Follows(k) THEN res' = Completed(k, "FOLLOWER") /\ evidence' = evidence \cup {k}
                  ELSE UNCHANGED <<res, evidence>>
Replayable(r) == r.status \in {"PENDING_REFERENCE", "COMPLETED"}
Conflicts(u) == res[key[u]].body \notin {None, body[u]}

\* What the outcome of r asks: to reference its object, to wait for another upload that
\* will, or nothing any more.
Asks(r) == IF r.status = "COMPLETED" THEN "nothing" ELSE IF r.intent = "MARK" THEN "mark" ELSE "wait"

FindReplay(u) ==
    /\ pc[u] \in {"replay", "again"}
    /\ \/ Conflicts(u) /\ Answer(u, "conflict") /\ UNCHANGED <<res, evidence, seen, on>>
       \/ /\ ~Conflicts(u) /\ LookUp(key[u])
          /\ LET r == res'[key[u]] IN
             \/ /\ Replayable(r) /\ Go(u, "publish")
                /\ on' = [on EXCEPT ![u] = r.staged] /\ seen' = [seen EXCEPT ![u] = Asks(r)]
                /\ UNCHANGED <<reply, lock>>
             \/ /\ ~Replayable(r) /\ UNCHANGED <<seen, on>>
                /\ \/ pc[u] = "again" /\ Answer(u, "pending")
                   \/ pc[u] = "replay" /\ Go(u, "read") /\ UNCHANGED <<reply, lock>>
    /\ UNCHANGED <<key, body, resumed, gate, art, scans, files, faults>>

FindPendingReceipt(u) ==
    /\ pc[u] = "read" /\ Go(u, "reserve")
    /\ resumed' = IF receipt[key[u]] # NoReceipt THEN resumed \cup {u} ELSE resumed
    /\ UNCHANGED <<key, body, seen, on, gate, reply, rows, scans, files, lock, faults>>

\* Reservations past their lease lapse first; all of it is undone when the key is terminal.
Lapsed(s) ==
    [k \in Keys |-> IF SessionOf[k] = s /\ res[k].status = "ACTIVE" /\ res[k].old
                      THEN [res[k] EXCEPT !.status = "EXPIRED"] ELSE res[k]]
Occupied(rs, ev, s) ==
    {k \in Keys : SessionOf[k] = s /\ (rs[k].status \in Held \/ k \in ev)}

Fresh(u) == [NoRes EXCEPT !.status = "ACTIVE", !.body = body[u]]

Reserve(u) ==
    /\ pc[u] = "reserve"
    /\ LET k == key[u]
           now == Lapsed(SessionOf[k])
       IN \/ /\ Conflicts(u)
             /\ Answer(u, "conflict") /\ UNCHANGED res
          \/ /\ ~Conflicts(u) /\ now[k].status \in Held
             /\ res' = now /\ Go(u, IF u \in resumed THEN "claim" ELSE "spool")
             /\ UNCHANGED <<reply, lock>>
          \/ /\ ~Conflicts(u) /\ now[k].status \notin Held \cup {None}
             /\ Go(u, "again") /\ UNCHANGED <<res, reply, lock>>
          \/ /\ now[k].status = None
             /\ IF Cardinality(Occupied(now, evidence, SessionOf[k])) >= MaxItems
                  THEN Answer(u, "quota") /\ UNCHANGED res
                  ELSE /\ res' = [now EXCEPT ![k] = Fresh(u)]
                       /\ Go(u, "spool") /\ UNCHANGED <<reply, lock>>
    /\ UNCHANGED <<upload, gate, art, evidence, scans, files, faults>>
-----------------------------------------------------------------------------
(* Spool and scan *)

WriteSpool(u) ==
    /\ pc[u] = "spool"
    /\ \/ spool' = [spool EXCEPT ![u] = "file"] /\ Go(u, "scan")
          /\ UNCHANGED <<reply, lock, res, object>>
       \/ Fail(u)
    /\ UNCHANGED <<upload, gate, art, evidence, scans, formal, faults>>

\* One attempt per key: a second scan must agree with it in verdict, scanner and its
\* definitions.
Recordable(k, verdict) == attempt[k] \in {None, verdict}

\* A clean scan leaves a pending receipt for the spool that came first.
Receipted(k, u) ==
    IF receipt[k] # NoReceipt THEN receipt
    ELSE [receipt EXCEPT ![k].status = "pending", ![k].spool = u]

RecordScan(u) ==
    /\ pc[u] = "scan"
    /\ LET k == key[u] IN
       \/ /\ Recordable(k, "clean")
          /\ attempt' = [attempt EXCEPT ![k] = "clean"]
          /\ receipt' = Receipted(k, u)
          /\ IF Active(u) THEN Go(u, "claim") /\ UNCHANGED <<res, object, reply, lock>>
                               /\ spool' = IF receipt'[k].spool = u THEN spool ELSE Dropped(u)
                          ELSE Fail(u)
       \/ /\ Recordable(k, "bad")
          /\ attempt' = [attempt EXCEPT ![k] = "bad"]
          /\ Fail(u) /\ UNCHANGED receipt
       \/ attempt[k] # None /\ Pend(u) /\ UNCHANGED <<attempt, receipt>>
       \/ attempt[k] # None /\ Unrejected(u) /\ UNCHANGED <<attempt, receipt>>
    /\ UNCHANGED <<upload, gate, art, evidence, clean, formal, faults>>
-----------------------------------------------------------------------------
(* Promotion under the publication lease *)

MarkFailed(u) ==
    receipt' = IF receipt[key[u]].owner = u
                 THEN [receipt EXCEPT ![key[u]].status = "failed", ![key[u]].owner = None,
                                      ![key[u]].lapsed = FALSE]
                 ELSE receipt
Owned(k, u) == [receipt EXCEPT ![k].status = "publishing", ![k].owner = u, ![k].lapsed = FALSE]

\* The formal source of a receipt, with all its files.
Found(k) == formal[k] \ {"part"} = Whole

Claim(u) ==
    /\ pc[u] = "claim"
    /\ LET k == key[u] IN
       \/ /\ ~Active(u) /\ Fail(u) /\ UNCHANGED receipt
       \/ /\ Active(u)
          /\ \/ receipt[k].status \in {"pending", "failed"}
             \/ receipt[k].status = "publishing" /\ receipt[k].lapsed
          /\ receipt' = Owned(k, u) /\ Go(u, "refresh")
          /\ UNCHANGED <<res, spool, object, reply, lock>>
       \/ /\ Active(u) /\ receipt[k].status = "publishing" /\ ~receipt[k].lapsed
          /\ Pend(u) /\ UNCHANGED receipt
       \/ /\ Active(u) /\ receipt[k].status = "published" /\ UNCHANGED receipt
          /\ IF Found(k) THEN Go(u, "activate") /\ UNCHANGED <<res, spool, object, reply, lock>>
                          ELSE Fail(u)
    /\ UNCHANGED <<upload, gate, art, evidence, attempt, clean, formal, faults>>

Refresh(u) ==
    /\ pc[u] = "refresh"
    /\ IF receipt[key[u]].owner = u
         THEN receipt' = Owned(key[u], u) /\ Go(u, "open")
              /\ UNCHANGED <<res, spool, object, reply, lock>>
         ELSE Pend(u) /\ UNCHANGED receipt
    /\ UNCHANGED <<upload, gate, art, evidence, attempt, clean, formal, faults>>

\* The spool of the receipt, whoever wrote it.
PendingSpool(k) == spool[receipt[k].spool]

\* The formal source as it is found: whole, in pieces (a conflict), or not there, when it
\* is made from the spool of the receipt, which may be gone or too old.
OpenFormal(u) ==
    /\ pc[u] = "open"
    /\ LET k == key[u]
           found == formal[k] \ {"part"}
           source == PendingSpool(k)
       IN \/ /\ Found(k) /\ Go(u, "mark")
             /\ UNCHANGED <<res, spool, object, reply, lock, formal, receipt>>
          \/ /\ found = {} /\ source = "file" /\ Go(u, "payload")
             /\ formal' = [formal EXCEPT ![k] = {"part"}]
             /\ UNCHANGED <<res, spool, object, reply, lock, receipt>>
          \/ /\ found = {} /\ source = None /\ Pend(u) /\ MarkFailed(u) /\ UNCHANGED formal
          \/ /\ found \notin {{}, Whole} \/ (found = {} /\ source = "stale")
             /\ Fail(u) /\ MarkFailed(u) /\ UNCHANGED formal
    /\ UNCHANGED <<upload, gate, art, evidence, attempt, clean, faults>>

\* Whatever is missing when a file is moved into place, all of the source is rolled back.
RollBack(u) ==
    /\ formal' = [formal EXCEPT ![key[u]] = {}] /\ Pend(u) /\ MarkFailed(u)

PublishPayload(u) ==
    /\ pc[u] = "payload"
    /\ IF "part" \in formal[key[u]]
         THEN /\ formal' = [formal EXCEPT ![key[u]] = (@ \ {"part"}) \cup {"payload"}]
              /\ Go(u, "record") /\ UNCHANGED <<res, spool, object, reply, lock, receipt>>
         ELSE RollBack(u)
    /\ UNCHANGED <<upload, gate, art, evidence, attempt, clean, faults>>

PublishRecord(u) ==
    /\ pc[u] = "record" /\ Go(u, "commit")
    /\ formal' = [formal EXCEPT ![key[u]] = @ \cup {"record"}]
    /\ UNCHANGED <<upload, gate, reply, rows, scans, spool, object, lock, faults>>

PublishCommit(u) ==
    /\ pc[u] = "commit"
    /\ IF {"payload", "record"} \subseteq formal[key[u]]
         THEN /\ formal' = [formal EXCEPT ![key[u]] = @ \cup {"commit"}]
              /\ spool' = Dropped(receipt[key[u]].spool)
              /\ Go(u, "mark") /\ UNCHANGED <<res, object, reply, lock, receipt>>
         ELSE RollBack(u)
    /\ UNCHANGED <<upload, gate, art, evidence, attempt, clean, faults>>

MarkPublished(u) ==
    /\ pc[u] = "mark"
    /\ LET k == key[u] IN
       IF receipt[k].owner = u \/ receipt[k].status = "published"
         THEN /\ receipt' = [receipt EXCEPT ![k].status = "published", ![k].owner = None,
                                            ![k].lapsed = FALSE]
              /\ Go(u, "activate") /\ UNCHANGED <<res, spool, object, reply, lock>>
         ELSE Pend(u) /\ UNCHANGED receipt
    /\ UNCHANGED <<upload, gate, art, evidence, attempt, clean, formal, faults>>

ActivateUnrecorded(u) ==                                              \* mutant
    /\ pc[u] = "activate" /\ UNCHANGED clean
    /\ IF Active(u) THEN Go(u, "validate") /\ UNCHANGED <<res, spool, object, reply, lock>>
                    ELSE Fail(u)
    /\ UNCHANGED <<upload, gate, art, evidence, attempt, receipt, formal, faults>>

Activate(u) ==
    /\ pc[u] = "activate"
    /\ clean' = clean \cup {key[u]}
    /\ IF Active(u) THEN Go(u, "validate") /\ UNCHANGED <<res, spool, object, reply, lock>>
                    ELSE Fail(u)
    /\ UNCHANGED <<upload, gate, art, evidence, attempt, receipt, formal, faults>>

\* The source is read from quarantine, which checks all its files; it may be no image.
Validate(u) ==
    /\ pc[u] = "validate"
    /\ \/ /\ Found(key[u]) /\ Active(u)
          /\ Go(u, "stage") /\ UNCHANGED <<res, spool, object, reply, lock>>
       \/ Fail(u)
    /\ UNCHANGED <<upload, gate, art, evidence, scans, formal, faults>>
-----------------------------------------------------------------------------
(* The commit: from here on a cancellation waits for its end *)

StageUnguarded(u) ==                                                  \* mutant
    /\ pc[u] = "stage" /\ Go(u, "lock")
    /\ object' = [object EXCEPT ![u] = "staged"]
    /\ UNCHANGED <<res, spool, reply, lock, gate>>
    /\ UNCHANGED <<upload, art, evidence, scans, formal, faults>>

Stage(u) ==
    /\ pc[u] = "stage"
    /\ IF Active(u)
         THEN /\ gate' = [gate EXCEPT ![u] = "held"]
              /\ object' = [object EXCEPT ![u] = "staged"]
              /\ Go(u, "lock") /\ UNCHANGED <<res, spool, reply, lock>>
         ELSE Fail(u) /\ UNCHANGED gate
    /\ UNCHANGED <<upload, art, evidence, scans, formal, faults>>

\* The run lock of the session; or SessionBusyError, when another upload, or a review that
\* is not part of this model, does not give it back in time.
TakeRunLock(u) ==
    /\ pc[u] = "lock"
    /\ \/ /\ lock[SessionOf[key[u]]] = None
          /\ lock' = [lock EXCEPT ![SessionOf[key[u]]] = u]
          /\ Go(u, "finalize") /\ UNCHANGED <<res, spool, object, reply>>
       \/ Fail(u)
    /\ UNCHANGED <<upload, gate, art, evidence, scans, formal, faults>>

Shown(s) ==
    {Image(k) : k \in {q \in Keys : SessionOf[q] = s
                         /\ (q \in evidence \/ res[q].status = "PENDING_REFERENCE")}}
TooManyAlready(k) ==                                                  \* mutant
    \/ Cardinality(Occupied(res, evidence, SessionOf[k])) > MaxItems
    \/ Cardinality(Shown(SessionOf[k])) > MaxImages
TooMany(k) ==
    \/ Cardinality(Occupied(res, evidence, SessionOf[k])) > MaxItems
    \/ Cardinality(Shown(SessionOf[k]) \cup {Image(k)}) > MaxImages

\* _assert_fresh_reference_outcome: what the finalize found committed by another upload of
\* the key is refused when the key only follows the artifact of another one.
Fits(r) == r.mode # "FOLLOWER" /\ ~(r.status = "PENDING_REFERENCE" /\ r.intent = "ABORT")

\* The facts of the staged object, and what is to become of it.
Settled(k, u) ==
    LET a == art[Image(k)] IN
    [res EXCEPT ![k].staged = u,
                ![k].intent = IF a = NoArt THEN "MARK" ELSE "ABORT",
                ![k].status = IF a.state = "REFERENCED" THEN "COMPLETED" ELSE "PENDING_REFERENCE",
                ![k].mode = IF a.state = "REFERENCED" THEN "DIRECT_REUSE" ELSE None]

\* The transaction that decides what the staged object is for: the artifact of its image,
\* or nothing, because the image has one already.
Finalize(u) ==
    /\ pc[u] = "finalize"
    /\ LET k == key[u]
           i == Image(k)
       IN \/ /\ res[k].status = "ACTIVE" /\ ~res[k].old /\ ~TooMany(k)
             /\ res' = Settled(k, u)
             /\ art' = IF art[i] = NoArt
                         THEN [art EXCEPT ![i] = [state |-> "PENDING_REFERENCE", by |-> u]] ELSE art
             /\ evidence' = IF art[i].state = "REFERENCED" THEN evidence \cup {k} ELSE evidence
             /\ on' = [on EXCEPT ![u] = u]
             /\ IF art[i] = NoArt
                  THEN Go(u, "refer") /\ UNCHANGED <<spool, object, reply, lock>>
                ELSE /\ object' = Aborted(u) /\ UNCHANGED spool
                     /\ IF art[i].state = "REFERENCED" THEN Answer(u, "result")
                        ELSE Go(u, "follow") /\ UNCHANGED <<reply, lock>>
          \/ /\ Replayable(res[k]) /\ LookUp(k)
             /\ IF Fits(res'[k])
                  THEN /\ object' = Aborted(u)
                       /\ \/ res'[k].status = "COMPLETED" /\ Answer(u, "result")
                          \/ /\ res'[k].status # "COMPLETED" /\ Go(u, "follow")
                             /\ UNCHANGED <<reply, lock>>
                  ELSE Answer(u, "impossible") /\ UNCHANGED object
             /\ UNCHANGED <<art, on, spool>>
          \/ /\ res[k].status = "ACTIVE" /\ ~res[k].old /\ TooMany(k)
             /\ Fail(u) /\ UNCHANGED <<art, evidence, on>>
          \/ /\ res[k].status \in {"REJECTED", "EXPIRED"} \/ (res[k].status = "ACTIVE" /\ res[k].old)
             /\ Pend(u) /\ UNCHANGED <<art, evidence, on>>
    /\ UNCHANGED <<key, body, resumed, seen, gate, scans, formal, faults>>

\* _reconcile_pending_reference: another upload of the key holds the intent.
Reconcile(u) ==
    /\ pc[u] = "follow"
    /\ LookUp(key[u])
    /\ LET r == res'[key[u]] IN
       \/ /\ r.status = "COMPLETED" /\ Answer(u, "result") /\ UNCHANGED on
       \/ /\ r.status = "PENDING_REFERENCE" /\ r.intent = "MARK"
          /\ on' = [on EXCEPT ![u] = r.staged] /\ Go(u, "refer") /\ UNCHANGED <<reply, lock>>
       \/ /\ r.status = "PENDING_REFERENCE" /\ r.intent = "ABORT"
          /\ Answer(u, "pending") /\ UNCHANGED on
    /\ UNCHANGED <<key, body, resumed, seen, gate, art, scans, files, faults>>

\* A replay is published under the run lock too, or not at all when the session is busy or
\* the upload cancelled; the outcome it completes was read before.
PublishReplay(u) ==
    /\ pc[u] = "publish"
    /\ LET s == SessionOf[key[u]] IN
       \/ Answer(u, "error") /\ UNCHANGED <<object, gate>>
       \/ /\ lock[s] = None /\ Active(u) /\ seen[u] = "mark"
          /\ lock' = [lock EXCEPT ![s] = u] /\ gate' = [gate EXCEPT ![u] = "held"]
          /\ Go(u, "refer") /\ UNCHANGED <<object, reply>>
       \/ /\ lock[s] = None /\ Active(u) /\ seen[u] # "mark"
          /\ object' = Aborted(on[u]) /\ UNCHANGED gate
          /\ Answer(u, IF seen[u] = "nothing" THEN "result" ELSE "pending")
    /\ UNCHANGED <<upload, rows, scans, spool, formal, faults>>

MarkNothing(u) ==                                                     \* mutant
    /\ pc[u] = "refer" /\ Go(u, "confirm") /\ UNCHANGED <<object, reply, lock>>
    /\ UNCHANGED <<upload, gate, rows, scans, spool, formal, faults>>

\* _find_completed_reference_result: a reference that failed here has its answer all the same
\* when another upload of the key confirmed it meanwhile.
Unreferenced(u) ==
    /\ Answer(u, IF res[key[u]].status = "COMPLETED" /\ res[key[u]].staged = on[u]
                   THEN "result" ELSE "error")
    /\ UNCHANGED <<res, spool, object>>

MarkReferenced(u) ==
    /\ pc[u] = "refer"
    /\ IF object[on[u]] \in {"staged", "referenced"}
         THEN /\ object' = [object EXCEPT ![on[u]] = "referenced"]
              /\ Go(u, "confirm") /\ UNCHANGED <<reply, lock>>
         ELSE Unreferenced(u)
    /\ UNCHANGED <<upload, gate, rows, scans, spool, formal, faults>>

ConfirmReference(u) ==
    /\ pc[u] = "confirm"
    /\ LET k == key[u] IN
       /\ IF res[k].status = "COMPLETED" THEN UNCHANGED rows
          ELSE /\ res' = Completed(k, "ADOPTED") /\ evidence' = evidence \cup {k}
               /\ art' = [art EXCEPT ![Image(k)].state = "REFERENCED"]
       /\ Answer(u, "result")
    /\ UNCHANGED <<upload, gate, scans, files, faults>>
-----------------------------------------------------------------------------
(* Time, cancellation and faults *)

Expire ==
    \/ \E k \in Keys : /\ res[k].status = "ACTIVE" /\ ~res[k].old
                       /\ res' = [res EXCEPT ![k].old = TRUE]
                       /\ UNCHANGED <<receipt, spool>>
    \/ \E k \in Keys : /\ receipt[k].owner # None /\ ~receipt[k].lapsed
                       /\ receipt' = [receipt EXCEPT ![k].lapsed = TRUE]
                       /\ UNCHANGED <<res, spool>>
    \/ \E u \in Uploads : /\ spool[u] = "file" /\ spool' = [spool EXCEPT ![u] = "stale"]
                          /\ UNCHANGED <<res, receipt>>
Time ==
    /\ Expire
    /\ UNCHANGED <<pc, upload, gate, reply, art, evidence, attempt, clean, formal, object, lock,
                   faults>>

Cancel(u) ==
    /\ pc[u] \notin {"idle", "done"} /\ gate[u] = "open"
    /\ gate' = [gate EXCEPT ![u] = "cancelled"]
    /\ UNCHANGED <<pc, upload, reply, rows, scans, files, lock, faults>>

CommittedAborts(u) ==                                                 \* mutant
    /\ Answer(u, "error") /\ UNCHANGED <<res, spool>>
    /\ object' = IF on[u] = None THEN object ELSE Aborted(on[u])
Committed(u) == Answer(u, "error") /\ UNCHANGED <<res, spool, object>>

\* A database or a file system that fails a step: after the finalize nothing is undone, and
\* in the middle of a promotion all of it is, unless that fails too.
StepFails(u) ==
    /\ faults < MaxFaults /\ faults' = faults + 1
    /\ \/ /\ pc[u] \in {"replay", "again", "read", "reserve", "publish", "follow", "refer", "confirm"}
          /\ Committed(u) /\ UNCHANGED <<receipt, formal>>
       \/ /\ pc[u] \in {"refer", "confirm"}
          /\ Unreferenced(u) /\ UNCHANGED <<receipt, formal>>
       \/ /\ pc[u] \in {"refresh", "open", "mark"}
          /\ Pend(u) /\ MarkFailed(u) /\ UNCHANGED formal
       \/ /\ pc[u] \in {"payload", "record", "commit"} /\ RollBack(u)
       \/ /\ pc[u] \in {"payload", "record", "commit"}
          /\ Pend(u) /\ MarkFailed(u) /\ UNCHANGED formal
       \/ /\ pc[u] = "activate" /\ Pend(u) /\ UNCHANGED <<receipt, formal>>
       \/ /\ pc[u] = "scan" /\ Unrejected(u) /\ UNCHANGED <<receipt, formal>>
       \/ /\ pc[u] \in {"spool", "scan", "claim", "validate", "stage", "lock", "finalize"}
          /\ Fail(u) /\ UNCHANGED <<receipt, formal>>
    /\ UNCHANGED <<upload, gate, art, evidence, attempt, clean>>

Crash ==
    /\ faults < MaxFaults /\ faults' = faults + 1
    /\ pc' = [u \in Uploads |-> IF pc[u] = "idle" THEN "idle" ELSE "done"]
    /\ lock' = [s \in Sessions |-> None]
    /\ UNCHANGED <<upload, gate, reply, rows, scans, files>>

Ingest(u) ==
    \/ FindReplay(u) \/ FindPendingReceipt(u) \/ Reserve(u) \/ WriteSpool(u) \/ RecordScan(u)
    \/ Claim(u) \/ Refresh(u) \/ OpenFormal(u) \/ PublishPayload(u) \/ PublishRecord(u)
    \/ PublishCommit(u) \/ MarkPublished(u) \/ Activate(u) \/ Validate(u) \/ Stage(u)
    \/ TakeRunLock(u) \/ Finalize(u) \/ Reconcile(u) \/ PublishReplay(u) \/ MarkReferenced(u)
    \/ ConfirmReference(u)

Next ==
    \/ \E u \in Uploads : Start(u) \/ Ingest(u) \/ Cancel(u) \/ StepFails(u)
    \/ Time \/ Crash

Spec == Init /\ [][Next]_vars
-----------------------------------------------------------------------------
Dead == {k \in Keys : res[k].status \in {"REJECTED", "EXPIRED"}}
Promise == INSTANCE MediaPromise WITH Keys <- Keys, Uploads <- Uploads,
    shown <- evidence, dead <- Dead,
    told <- {<<u, key[u]>> : u \in {v \in Uploads : reply[v] = "result"}}

\* Every interleaving of uploads, retries, expiries, cancellations and crashes is one that
\* the abstract promise allows.
KeepsPromise == Promise!Spec

\* An evidence row has an artifact whose object is in the referenced directory: no other
\* upload's abort, no crash and no retry takes it away or shows the row first.
ImageBehindEvidence ==
    \A k \in evidence : /\ res[k].status = "COMPLETED" /\ art[Image(k)].state = "REFERENCED"
                        /\ object[art[Image(k)].by] = "referenced"

\* What a committed intent is to reference is still there, so that a retry can complete it,
\* and nobody's abort is aimed at it.
PendingIsKept ==
    \A k \in Keys : res[k].status = "PENDING_REFERENCE" =>
        LET i == Image(k) IN
        /\ art[i] # NoArt
        /\ art[i].state = "PENDING_REFERENCE" => object[art[i].by] \in {"staged", "referenced"}
        /\ res[k].intent = "MARK" => art[i].by = res[k].staged

\* Evidence is only what a scan that is on record found clean, and the bytes that were
\* scanned were promoted under that record's receipt.
ShownWasScanned ==
    \A k \in Keys : res[k].status \in {"PENDING_REFERENCE", "COMPLETED"} =>
        attempt[k] = "clean" /\ receipt[k].status = "published" /\ k \in clean

\* A session never shows more images, nor more distinct ones, than its quotas, counting
\* what is still on its way.
QuotaHolds ==
    \A s \in Sessions : /\ Cardinality(Occupied(res, evidence, s)) <= MaxItems
                        /\ Cardinality(Shown(s)) <= MaxImages

\* An upload that was told it is cancelled commits nothing.
CancelWins == \A u \in Uploads, k \in Keys : res[k].staged = u => gate[u] # "cancelled"

\* Evidence stands on an object that is referenced, was scanned clean under its own
\* receipt, and is not that of an upload which was told it is cancelled.
EvidenceIsSound == ImageBehindEvidence /\ ShownWasScanned /\ CancelWins
=============================================================================
