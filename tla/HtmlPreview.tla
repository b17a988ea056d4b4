----------------------------- MODULE HtmlPreview -----------------------------
(***************************************************************************)
(* HtmlPreviewService and HtmlPreviewRepository: static pages generated    *)
(* for one group.  Rows of html_previews and outbox live in SQLite, the    *)
(* pages in one directory each, read by Nginx.  The consumer handles the   *)
(* requests of a group one after another (key `<group>:html-preview') in   *)
(* the worker, whose hourly cleanup runs between the awaits of a handler;  *)
(* the admin process removes pages on its own.                             *)
(*                                                                         *)
(* Page p answers the p-th request of the group, so pages are created in   *)
(* the order of their numbers.  A lease token is compared only by the      *)
(* handler that drew it; as handlers of a group do not overlap, a row with *)
(* a lease carries the token of whoever claimed it last.  Times are what   *)
(* is left of lease_expires_at and expires_at.  Temporary directories are  *)
(* not read by anybody and are left out.                                   *)
(***************************************************************************)
EXTENDS Integers, FiniteSets

CONSTANTS
  NPages,     \* requests of the group (bound)
  Lease,      \* HTML_PREVIEW_DEFAULT_LEASE_MS
  Retention,  \* HTML_PREVIEW_RETENTION_MS
  MaxBuild,   \* total timeout of a generation, longer than Lease by default
  MaxCrashes, \* crashes of the worker and of the admin process (bound)
  MaxFaults,  \* errors in a handler, a generation or a file operation (bound)
  SlowSweep   \* the orphan sweep may last longer than building a page

ASSUME PreviewAssumption ==
  /\ NPages \in Nat
  /\ Lease \in Nat \ {0} /\ Retention \in Nat \ {0} /\ MaxBuild \in Nat
  /\ MaxCrashes \in Nat /\ MaxFaults \in Nat
  /\ SlowSweep \in BOOLEAN

Pages == 1..NPages
NoPage == 0
NoLease == -1
Ended == {"expired", "deleted"}

VARIABLES
  status,   \* column status, "none" before the insert
  lease,    \* column lease_expires_at, as the time left; NoLease for NULL
  told,     \* announcement_outbox_id: no notice, a link or an apology
  notices,  \* outbox rows inserted for the page (history)
  ttl,      \* column expires_at, as the time left
  sha,      \* column content_sha256: the build that was published, 0 for NULL
  file,     \* the build in the directory pages/<id>, 0 without directory
  builds,   \* builds started (history, names the builds)
  up,       \* the worker is running
  handled,  \* completed requests
  pc,       \* what the handler is about to do
  msg,      \* the request it handles
  page,     \* the page it has claimed
  spent,    \* the time it has spent on this page
  sweep,    \* what the cleanup is about to do
  listed,   \* pages it has yet to expire, then the ids it knows
  swept,    \* the page whose directory it has just removed
  removing, \* the page whose directory the admin has just removed
  doomed,   \* pages a removal was begun for (history)
  texts,    \* texts of a handler that is refused or fails (history)
  left,     \* what an error has left of a page (history): "waiting" for another
            \* handler, "lost" without record or notice
  crashes,
  faults

rows == <<status, lease, told, notices, ttl, sha>>
task == <<handled, pc, msg, page, spent, builds>>
cleaner == <<sweep, listed, swept>>
seen == <<doomed, texts, left>>
vars == <<status, lease, told, notices, ttl, sha, file, builds, up, handled,
          pc, msg, page, spent, sweep, listed, swept, removing, doomed, texts, left,
          crashes, faults>>

Init == /\ status = [p \in Pages |-> "none"]
        /\ lease = [p \in Pages |-> NoLease]
        /\ told = [p \in Pages |-> "no"]
        /\ notices = [p \in Pages |-> 0]
        /\ ttl = [p \in Pages |-> 0]
        /\ sha = [p \in Pages |-> 0]
        /\ file = [p \in Pages |-> 0]
        /\ builds = [p \in Pages |-> 0]
        /\ up = TRUE
        /\ handled = {}
        /\ pc = "idle"
        /\ msg = NoPage
        /\ page = NoPage
        /\ spent = 0
        /\ sweep = "idle"
        /\ listed = {}
        /\ swept = NoPage
        /\ removing = NoPage
        /\ doomed = {}
        /\ texts = [p \in Pages |-> 0]
        /\ left = [p \in Pages |-> "no"]
        /\ crashes = 0
        /\ faults = 0

-----------------------------------------------------------------------------
(* A page that waits, or whose builder's lease has run out. *)
Claimable(p) ==
  /\ ttl[p] > 0
  /\ status[p] = "pending" \/ (status[p] = "processing" /\ lease[p] = 0)

(* Mutant: only waiting pages keep the later ones back. *)
BlocksPending(q) == status[q] = "pending"

(* The earlier pages that keep p back in findClaimableCandidate. *)
Blocks(q) == status[q] = "pending" \/ (status[q] = "processing" /\ lease[q] # 0)

(* findClaimableCandidate: the oldest claimable page of the group. *)
Candidates ==
  LET free == {p \in Pages : Claimable(p) /\ \A q \in 1..(p - 1) : ~Blocks(q)}
  IN  {p \in free : \A q \in free : p <= q}

(* The handler's token is still in the row. *)
Owns(p) == status[p] = "processing" /\ lease[p] # NoLease

(* processNext goes on claiming until it has come to its own page. *)
AfterPage == IF page = msg THEN "end" ELSE "claim"

-----------------------------------------------------------------------------
(* HtmlPreviewService.enqueue; a request handled again finds its row. *)
Accept(m) ==
  /\ up /\ pc = "idle"
  /\ m \notin handled /\ \A n \in 1..(m - 1) : n \in handled
  /\ msg' = m /\ pc' = "claim"
  /\ IF status[m] = "none"
     THEN status' = [status EXCEPT ![m] = "pending"] /\ ttl' = [ttl EXCEPT ![m] = Retention]
     ELSE UNCHANGED <<status, ttl>>
  /\ UNCHANGED <<lease, told, notices, sha, file, builds, up, handled, page,
                 spent, cleaner, removing, seen, crashes, faults>>

(* The handler of m sends a failure text that is linked to no page, and returns;
   if sending throws, before the text is in the outbox or after it, the consumer
   hands out the request again. *)
Excuse(m) ==
  /\ faults < MaxFaults /\ faults' = faults + 1
  /\ \/ texts' = [texts EXCEPT ![m] = @ + 1] /\ handled' \in {handled, handled \cup {m}}
     \/ UNCHANGED <<texts, handled>>

(* The request is refused: no permission, no disk space. *)
Refuse(m) ==
  /\ up /\ pc = "idle"
  /\ m \notin handled /\ \A n \in 1..(m - 1) : n \in handled
  /\ Excuse(m)
  /\ UNCHANGED <<rows, file, builds, up, pc, msg, page, spent, cleaner, removing,
                 doomed, left, crashes>>

(* claimNext finds a page. *)
Claim(p) ==
  /\ up /\ pc = "claim" /\ p \in Candidates
  /\ status' = [status EXCEPT ![p] = "processing"]
  /\ lease' = [lease EXCEPT ![p] = Lease]
  /\ page' = p /\ pc' = "build" /\ spent' = 0
  /\ UNCHANGED <<told, notices, ttl, sha, file, builds, up, handled, msg,
                 cleaner, removing, seen, crashes, faults>>

(* There is nothing to build any more: the handler sees to the notice of its
   own page (claimAnnouncement, enqueueFailureNotice) or leaves. *)
Settle ==
  /\ up /\ pc = "claim" /\ Candidates = {}
  /\ page' = msg
  /\ \/ /\ status[msg] = "published" /\ told[msg] = "no" /\ ttl[msg] > 0 /\ lease[msg] \in {NoLease, 0}
        /\ lease' = [lease EXCEPT ![msg] = Lease]
        /\ pc' = "reannounce"
     \/ /\ status[msg] = "failed"
        /\ pc' = "apologise"
        /\ lease' = lease
     \/ /\ status[msg] # "failed"
        /\ ~(status[msg] = "published" /\ told[msg] = "no" /\ ttl[msg] > 0 /\ lease[msg] \in {NoLease, 0})
        /\ pc' = "end"
        /\ lease' = lease
  /\ UNCHANGED <<status, told, notices, ttl, sha, file, builds, up, handled, msg,
                 spent, cleaner, removing, seen, crashes, faults>>

-----------------------------------------------------------------------------
Working == {"build", "place", "publish"}

(* The page is generated, and publishFiles clears its directory. *)
Generate ==
  /\ up /\ pc = "build"
  /\ file' = [file EXCEPT ![page] = 0]
  /\ builds' = [builds EXCEPT ![page] = @ + 1]
  /\ pc' = "place"
  /\ UNCHANGED <<rows, up, handled, msg, page, spent, cleaner, removing, seen, crashes, faults>>

(* publishFiles writes a temporary directory and renames it.  A page that was
   accepted during an orphan sweep takes longer than the sweep. *)
Place ==
  /\ up /\ pc = "place"
  /\ SlowSweep \/ sweep # "orphans" \/ page \in listed
  /\ file' = [file EXCEPT ![page] = builds[page]]
  /\ pc' = "publish"
  /\ UNCHANGED <<rows, builds, up, handled, msg, page, spent, cleaner, removing, seen, crashes, faults>>

(* HtmlPreviewRepository.publish. *)
Publish ==
  /\ up /\ pc = "publish"
  /\ IF Owns(page)
     THEN /\ status' = [status EXCEPT ![page] = "published"]
          /\ sha' = [sha EXCEPT ![page] = builds[page]]
          /\ pc' = "announce"
     ELSE UNCHANGED <<status, sha>> /\ pc' = AfterPage
  /\ UNCHANGED <<lease, told, notices, ttl, file, builds, up, handled, msg, page,
                 spent, cleaner, removing, seen, crashes, faults>>

Announcing == {"announce", "reannounce"}

(* Mutant: the outbox row is not linked to the page. *)
AnnounceUnlinked ==
  /\ up /\ pc \in Announcing
  /\ IF status[page] = "published" /\ told[page] = "no" /\ lease[page] # NoLease
     THEN /\ notices' = [notices EXCEPT ![page] = @ + 1]
          /\ lease' = [lease EXCEPT ![page] = NoLease]
     ELSE UNCHANGED <<notices, lease>>
  /\ pc' = AfterPage
  /\ UNCHANGED <<status, told, ttl, sha, file, builds, up, handled, msg, page,
                 spent, cleaner, removing, seen, crashes, faults>>

(* enqueueAnnouncement: the outbox row and its link, in one transaction. *)
Announce ==
  /\ up /\ pc \in Announcing
  /\ IF status[page] = "published" /\ told[page] = "no" /\ lease[page] # NoLease
     THEN /\ notices' = [notices EXCEPT ![page] = @ + 1]
          /\ told' = [told EXCEPT ![page] = "link"]
          /\ lease' = [lease EXCEPT ![page] = NoLease]
     ELSE UNCHANGED <<notices, told, lease>>
  /\ pc' = AfterPage
  /\ UNCHANGED <<status, ttl, sha, file, builds, up, handled, msg, page,
                 spent, cleaner, removing, seen, crashes, faults>>

(* An error in it after publish() is caught like one before it; fail() does not
   match a published page, whose lease stays, and nobody is told of it. *)
AnnounceFails ==
  /\ up /\ pc = "announce"
  /\ faults < MaxFaults /\ faults' = faults + 1
  /\ left' = [left EXCEPT ![page] = "lost"]
  /\ pc' = AfterPage
  /\ UNCHANGED <<rows, file, builds, up, handled, msg, page, spent, cleaner, removing,
                 doomed, texts, crashes>>

(* Mutant: nobody is told of a failure. *)
FailSilently ==
  /\ up /\ pc \in Working
  /\ faults < MaxFaults /\ faults' = faults + 1
  /\ IF Owns(page)
     THEN /\ status' = [status EXCEPT ![page] = "failed"]
          /\ lease' = [lease EXCEPT ![page] = NoLease]
     ELSE UNCHANGED <<status, lease>>
  /\ pc' = AfterPage
  /\ UNCHANGED <<told, notices, ttl, sha, file, builds, up, handled, msg, page,
                 spent, cleaner, removing, seen, crashes>>

(* An error in the generation or in a file operation, and fail(). *)
Fail ==
  /\ up /\ pc \in Working
  /\ faults < MaxFaults /\ faults' = faults + 1
  /\ IF Owns(page)
     THEN /\ status' = [status EXCEPT ![page] = "failed"]
          /\ lease' = [lease EXCEPT ![page] = NoLease]
          /\ pc' = "apologise"
     ELSE UNCHANGED <<status, lease>> /\ pc' = AfterPage
  /\ UNCHANGED <<told, notices, ttl, sha, file, builds, up, handled, msg, page,
                 spent, cleaner, removing, seen, crashes>>

(* enqueueFailureNotice. *)
Apologise ==
  /\ up /\ pc = "apologise"
  /\ IF status[page] = "failed" /\ told[page] = "no"
     THEN /\ notices' = [notices EXCEPT ![page] = @ + 1]
          /\ told' = [told EXCEPT ![page] = "apology"]
     ELSE UNCHANGED <<notices, told>>
  /\ pc' = AfterPage
  /\ UNCHANGED <<status, lease, ttl, sha, file, builds, up, handled, msg, page,
                 spent, cleaner, removing, seen, crashes, faults>>

(* Any other error ends the handler and leaves the rows as they are: between
   enqueue and processNext, in claimNext, in the recovery of a notice, or of the
   database in publish() and in the fail() that follows. *)
GiveUp ==
  /\ up /\ pc \in {"claim", "publish", "reannounce", "apologise"}
  /\ Excuse(msg)
  /\ left' = IF pc = "claim" THEN [left EXCEPT ![msg] = "waiting"]
                             ELSE [left EXCEPT ![page] = "lost"]
  /\ pc' = "idle" /\ msg' = NoPage /\ page' = NoPage /\ spent' = 0
  /\ UNCHANGED <<rows, file, builds, up, cleaner, removing, doomed, crashes>>

(* The handler returns and the consumer completes the request. *)
End ==
  /\ up /\ pc = "end"
  /\ handled' = handled \cup {msg}
  /\ pc' = "idle" /\ msg' = NoPage /\ page' = NoPage /\ spent' = 0
  /\ UNCHANGED <<rows, file, builds, up, cleaner, removing, seen, crashes, faults>>

-----------------------------------------------------------------------------
(* Mutant: only published pages are known. *)
KnownPublished == {p \in Pages : status[p] = "published"}

(* listIds *)
Known == {p \in Pages : status[p] # "none"}

(* These pages are yet to be expired; when none is left, the known ids are read
   at once. *)
GoOn(expired) ==
  /\ sweep' = IF expired = {} THEN "orphans" ELSE "expire"
  /\ listed' = IF expired = {} THEN Known ELSE expired

(* cleanup lists the pages whose time has come, *)
List ==
  /\ up /\ sweep = "idle"
  /\ GoOn({p \in Pages : ttl[p] = 0 /\ status[p] \notin Ended \cup {"none"}})
  /\ UNCHANGED <<rows, file, task, up, swept, removing, seen, crashes, faults>>

(* removes the directory of the oldest of them, *)
Wipe(p) ==
  /\ up /\ sweep = "expire" /\ swept = NoPage
  /\ p \in listed /\ \A q \in listed : p <= q
  /\ swept' = p
  /\ file' = [file EXCEPT ![p] = 0]
  /\ doomed' = doomed \cup {p}
  /\ UNCHANGED <<rows, task, up, sweep, listed, removing, texts, left, crashes, faults>>

(* marks it, and goes on with the next one, *)
MarkExpired ==
  /\ up /\ swept # NoPage
  /\ IF status[swept] \notin Ended
     THEN /\ status' = [status EXCEPT ![swept] = "expired"]
          /\ lease' = [lease EXCEPT ![swept] = NoLease]
     ELSE UNCHANGED <<status, lease>>
  /\ GoOn(listed \ {swept})
  /\ swept' = NoPage
  /\ UNCHANGED <<told, notices, ttl, sha, file, task, up, removing, seen, crashes, faults>>

(* and removes the directories with other names. *)
RemoveOrphans ==
  /\ up /\ sweep = "orphans"
  /\ file' = [p \in Pages |-> IF p \in listed THEN file[p] ELSE 0]
  /\ sweep' = "idle" /\ listed' = {}
  /\ UNCHANGED <<rows, task, up, swept, removing, seen, crashes, faults>>

-----------------------------------------------------------------------------
(* HtmlPreviewService.remove in the admin process: first the directory, *)
Remove(p) ==
  /\ removing = NoPage
  /\ status[p] \notin {"none", "deleted"}
  /\ removing' = p
  /\ file' = [file EXCEPT ![p] = 0]
  /\ doomed' = doomed \cup {p}
  /\ UNCHANGED <<rows, task, up, cleaner, texts, left, crashes, faults>>

(* then the row. *)
MarkDeleted ==
  /\ removing # NoPage
  /\ status' = [status EXCEPT ![removing] = "deleted"]
  /\ lease' = [lease EXCEPT ![removing] = NoLease]
  /\ removing' = NoPage
  /\ UNCHANGED <<told, notices, ttl, sha, file, task, up, cleaner, seen, crashes, faults>>

(* The admin process dies between the two. *)
AdminDies ==
  /\ removing # NoPage
  /\ crashes < MaxCrashes /\ crashes' = crashes + 1
  /\ removing' = NoPage
  /\ UNCHANGED <<rows, file, task, up, cleaner, seen, faults>>

Crash ==
  /\ up /\ crashes < MaxCrashes
  /\ crashes' = crashes + 1
  /\ up' = FALSE
  /\ pc' = "idle" /\ msg' = NoPage /\ page' = NoPage /\ spent' = 0
  /\ sweep' = "idle" /\ listed' = {} /\ swept' = NoPage
  /\ UNCHANGED <<rows, file, handled, builds, removing, seen, faults>>

Restart ==
  /\ ~up
  /\ up' = TRUE
  /\ UNCHANGED <<rows, file, task, cleaner, removing, seen, crashes, faults>>

Building == pc \in Working

(* One unit of time, until the last page has expired.  Only generating and
   writing a page takes long; the other steps of a handler follow at once. *)
Tick ==
  /\ \E p \in Pages : ttl[p] > 0
  /\ pc = "idle" \/ (Building /\ spent < MaxBuild)
  /\ spent' = IF Building THEN spent + 1 ELSE 0
  /\ ttl' = [p \in Pages |-> IF ttl[p] > 0 THEN ttl[p] - 1 ELSE 0]
  /\ lease' = [p \in Pages |-> IF lease[p] > 0 THEN lease[p] - 1 ELSE lease[p]]
  /\ UNCHANGED <<status, told, notices, sha, file, handled, pc, msg, page, builds, up,
                 cleaner, removing, seen, crashes, faults>>

-----------------------------------------------------------------------------
TaskStep ==
  \/ \E p \in Pages : Accept(p) \/ Refuse(p) \/ Claim(p)
  \/ Settle \/ Generate \/ Place \/ Publish \/ Announce \/ AnnounceFails \/ Fail
  \/ Apologise \/ GiveUp \/ End

SweepStep == List \/ (\E p \in Pages : Wipe(p)) \/ MarkExpired \/ RemoveOrphans

AdminStep == (\E p \in Pages : Remove(p)) \/ MarkDeleted \/ AdminDies

Next == TaskStep \/ SweepStep \/ AdminStep \/ Crash \/ Restart \/ Tick

Spec == Init /\ [][Next]_vars

(* The consumer goes on with a handler, the event loop with a cleanup. *)
Fairness == /\ WF_vars(TaskStep)
            /\ WF_vars(SweepStep)
            /\ WF_vars(Restart)

FairSpec == Spec /\ Fairness

-----------------------------------------------------------------------------
Statuses == {"none", "pending", "processing", "published", "failed", "expired", "deleted"}

TypeOK == /\ status \in [Pages -> Statuses]
          /\ lease \in [Pages -> NoLease..Lease]
          /\ told \in [Pages -> {"no", "link", "apology"}]
          /\ notices \in [Pages -> Nat]
          /\ ttl \in [Pages -> 0..Retention]
          /\ sha \in [Pages -> Nat]
          /\ file \in [Pages -> Nat]
          /\ builds \in [Pages -> Nat]
          /\ up \in BOOLEAN
          /\ handled \subseteq Pages
          /\ pc \in {"idle", "claim", "apologise", "end"} \cup Working \cup Announcing
          /\ msg \in Pages \cup {NoPage}
          /\ page \in Pages \cup {NoPage}
          /\ spent \in 0..MaxBuild
          /\ sweep \in {"idle", "expire", "orphans"}
          /\ listed \subseteq Pages
          /\ swept \in Pages \cup {NoPage}
          /\ removing \in Pages \cup {NoPage}
          /\ doomed \subseteq Pages
          /\ texts \in [Pages -> Nat]
          /\ left \in [Pages -> {"no", "waiting", "lost"}]
          /\ crashes \in 0..MaxCrashes
          /\ faults \in 0..MaxFaults

(* One notice at most is linked to a page, however often the worker dies between
   publishing, announcing and completing the request, and it tells what became
   of the page.  A further message about the request is the failure text of a
   handler that was refused or ended by an error: the page of such a request may
   still be built and announced by a later handler (processNext, the catch branch
   of handleHtmlPreviewRequest). *)
OneNotice ==
  \A p \in Pages :
    /\ notices[p] <= 1
    /\ notices[p] + texts[p] <= 1 + faults
    /\ told[p] = "link" => sha[p] # 0
    /\ told[p] = "apology" => sha[p] = 0

(* No two pages of a group are under construction with a lease, so that the
   pages of a group come out in the order of their requests. *)
OneBuilding ==
  \A p, q \in Pages :
    /\ status[p] = "processing" /\ lease[p] > 0
    /\ status[q] = "processing" /\ lease[q] > 0
    => p = q

(* The directory of a published page holds the build whose hash the row
   records, unless somebody has begun to remove it. *)
PublishedIsServed ==
  \A p \in Pages : status[p] = "published" /\ p \notin doomed => file[p] = sha[p] /\ sha[p] # 0

(* As long as no process dies, every accepted request is answered in the group,
   by the notice of its page or the failure text of its handler, unless its page
   is removed or expires first, or an error has lost the page or kept an earlier
   one waiting: until that one is settled or the cleanup has expired it, it keeps
   the later ones back (processNext, findClaimableCandidate). *)
EventuallyTold ==
  \A p \in Pages :
    status[p] = "pending" ~> \/ told[p] # "no" \/ texts[p] > 0 \/ status[p] \in Ended
                             \/ left[p] = "lost" \/ \E q \in 1..(p - 1) : left[q] # "no"
                             \/ crashes > 0
=============================================================================
