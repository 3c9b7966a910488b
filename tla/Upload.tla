------------------------------- MODULE Upload -------------------------------
(***************************************************************************)
(* File uploads of one UploadFileSession (src/modules/helper_utils.rs):    *)
(* prepare obtains or reuses a plan, upload puts the files of the plan     *)
(* one after the other and finishes it.  Several calls share the session   *)
(* and its caches under upload_lock; requests fail, futures are dropped,   *)
(* plans expire.  A file is its SHA1: one that changes between its hash    *)
(* and its upload is not modelled.                                         *)
(***************************************************************************)
EXTENDS Naturals, Sequences, SequencesExt

CONSTANTS
    Uploads,   \* concurrent calls of upload and prepare
    Shas,      \* contents of files
    Lists,     \* lists of files the calls are made with
    Margin,    \* 600 s before expiry a plan is no longer used
    Validity,  \* ticks a plan is valid for
    NoPlan,    \* init_data: None
    Nobody,    \* upload_lock is free
    MaxPlans,  \* bound: plans the server issues
    MaxUpClock \* bound: ticks

ASSUME UploadAssumption ==
    /\ Lists \subseteq Seq(Shas)
    /\ Margin \in Nat /\ Validity \in Nat /\ MaxPlans \in Nat /\ MaxUpClock \in Nat
    /\ NoPlan \notin Nat /\ Nobody \notin Uploads

VARIABLES
    initData,  \* init_data: [id, shas, stored, expires] or NoPlan
    lastShas,  \* last_file_shas
    lock,      \* upload_lock
    job,       \* what each call does: [files, whole, pc, plan, next]
    issued,    \* server: plans issued
    objects,   \* server: objects put, as <<plan, position, content>>
    finished,  \* server: plans finished, as <<plan, files of the caller>>
    upClock    \* now_secs

upload == <<initData, lastShas, lock, job, issued, objects, finished, upClock>>

\* A plan for the files with these SHA1s: the first "usable" of them have
\* credentials, a bucket and a key; those in "stored" are there already
\* (upload_status 1).
Plan == [id : 1 .. MaxPlans, shas : Lists, usable : Nat, stored : SUBSET Nat, expires : Nat]

Jobs == [files : Lists, whole : BOOLEAN,
         pc : {"new", "locked", "init", "ready", "put", "finish", "done", "failed"},
         plan : Plan \cup {NoPlan}, next : Nat]

UploadTypeOK ==
    /\ initData = NoPlan \/ initData \in Plan
    /\ lastShas \in Lists \cup {<<>>}
    /\ lock \in Uploads \cup {Nobody}
    /\ job \in [Uploads -> Jobs]
    /\ issued \in 0 .. MaxPlans
    /\ upClock \in 0 .. MaxUpClock

UploadInit ==
    /\ initData = NoPlan /\ lastShas = <<>> /\ lock = Nobody
    /\ job \in [Uploads -> [files : Lists, whole : BOOLEAN, pc : {"new"}, plan : {NoPlan}, next : {1}]]
    /\ issued = 0 /\ objects = {} /\ finished = {} /\ upClock = 0

-----------------------------------------------------------------------------
\* The call returns and its guard releases the lock.
Release(u, end) ==
    /\ lock' = IF lock = u THEN Nobody ELSE lock
    /\ job' = [job EXCEPT ![u].pc = end]

\* Mutant of Enter: without the lock of the session.
EnterUnlocked(u) ==
    /\ job[u].pc = "new"
    /\ job' = [job EXCEPT ![u].pc = "locked"]
    /\ lock' = u
    /\ UNCHANGED <<initData, lastShas, issued, objects, finished, upClock>>

\* upload_lock is taken; the hashes of the files are computed under it.
Enter(u) ==
    /\ job[u].pc = "new" /\ lock = Nobody
    /\ lock' = u
    /\ job' = [job EXCEPT ![u].pc = "locked"]
    /\ UNCHANGED <<initData, lastShas, issued, objects, finished, upClock>>

\* The cache after the comparison with the files of the last call.
Kept(u) == IF lastShas = job[u].files THEN initData ELSE NoPlan

Fresh(plan) == plan # NoPlan /\ upClock + Margin < plan.expires

\* prepare_inner: the cached plan is reused, or a new one is asked for.
Prepare(u) ==
    /\ job[u].pc = "locked"
    /\ lastShas' = job[u].files
    /\ initData' = Kept(u)
    /\ job' = [job EXCEPT ![u].pc = IF Fresh(Kept(u)) THEN "ready" ELSE "init"]
    /\ UNCHANGED <<lock, issued, objects, finished, upClock>>

\* The objects of a plan with the files it names.
Objects(id, files, positions) == {<<id, i, files[i]>> : i \in positions}

\* InitUpload answers, with whatever it answers: a plan that turns out to be
\* incomplete is cached like any other, and so is one that is expired.  The
\* server may know some of the files already.
Planned(u, usable, stored) ==
    /\ job[u].pc = "init"
    /\ issued < MaxPlans
    /\ usable <= Len(job[u].files) /\ stored \subseteq DOMAIN job[u].files
    /\ issued' = issued + 1
    /\ initData' = [id |-> issued + 1, shas |-> job[u].files, usable |-> usable,
                    stored |-> stored, expires |-> upClock + Validity]
    /\ objects' = objects \cup Objects(issued + 1, job[u].files, stored)
    /\ job' = [job EXCEPT ![u].pc = "ready"]
    /\ UNCHANGED <<lastShas, lock, finished, upClock>>

\* prepare returns; upload takes its copy of the plan, of whatever the cache
\* holds by now.
Copy(u) ==
    /\ job[u].pc = "ready"
    /\ IF job[u].whole
       THEN /\ job' = [job EXCEPT ![u].plan = initData, ![u].next = 1,
                                  ![u].pc = IF initData = NoPlan THEN "failed" ELSE "put"]
            /\ lock' = IF initData = NoPlan /\ lock = u THEN Nobody ELSE lock
       ELSE Release(u, "done")
    /\ UNCHANGED <<initData, lastShas, issued, objects, finished, upClock>>

\* A file cannot be read, a request fails, or the future is dropped at its
\* await: the guard goes.
Fail(u) ==
    /\ job[u].pc \in {"locked", "init", "put", "finish"}
    /\ Release(u, "failed")
    /\ UNCHANGED <<initData, lastShas, issued, objects, finished, upClock>>

\* A request whose answer is lost was carried out all the same.
FailLate(u) ==
    /\ \/ /\ job[u].pc = "finish"
          /\ finished' = finished \cup {<<job[u].plan.id, job[u].files>>}
          /\ UNCHANGED objects
       \/ /\ job[u].pc = "put" /\ job[u].next <= job[u].plan.usable
          /\ objects' = objects \cup Objects(job[u].plan.id, job[u].files, {job[u].next})
          /\ UNCHANGED finished
    /\ Release(u, "failed")
    /\ UNCHANGED <<initData, lastShas, issued, upClock>>

Advance(u) == job' = [job EXCEPT ![u].next = @ + 1]

\* Mutant of Put: a file that cannot be put is skipped.
PutOrSkip(u) ==
    /\ job[u].pc = "put" /\ job[u].next <= job[u].plan.usable
    /\ objects' \in {objects, objects \cup Objects(job[u].plan.id, job[u].files, {job[u].next})}
    /\ Advance(u)
    /\ UNCHANGED <<initData, lastShas, lock, issued, finished, upClock>>

\* put_object: the file is read and put where the plan says, unless it is
\* stored already.
Put(u) ==
    /\ job[u].pc = "put" /\ job[u].next <= job[u].plan.usable
    /\ objects' = objects \cup
          Objects(job[u].plan.id, job[u].files, {job[u].next} \ job[u].plan.stored)
    /\ Advance(u)
    /\ UNCHANGED <<initData, lastShas, lock, issued, finished, upClock>>

\* The plan lacks a credential, a bucket or a key for the next file.
Incomplete(u) ==
    /\ job[u].pc = "put"
    /\ job[u].plan.usable < job[u].next /\ job[u].next <= Len(job[u].files)
    /\ Release(u, "failed")
    /\ UNCHANGED <<initData, lastShas, issued, objects, finished, upClock>>

\* After the last file FinishUpload is sent.
Finish(u) ==
    /\ job[u].pc = "put" /\ job[u].next > Len(job[u].files)
    /\ job' = [job EXCEPT ![u].pc = "finish"]
    /\ UNCHANGED <<initData, lastShas, lock, issued, objects, finished, upClock>>

Finished(u) ==
    /\ job[u].pc = "finish"
    /\ finished' = finished \cup {<<job[u].plan.id, job[u].files>>}
    /\ Release(u, "done")
    /\ UNCHANGED <<initData, lastShas, issued, objects, upClock>>

UpTick ==
    /\ upClock < MaxUpClock
    /\ upClock' = upClock + 1
    /\ UNCHANGED <<initData, lastShas, lock, job, issued, objects, finished>>

\* A later call of the same caller, with other files.
Reuse(u, files, whole) ==
    /\ job[u].pc \in {"done", "failed"}
    /\ issued < MaxPlans
    /\ job' = [job EXCEPT ![u] = [files |-> files, whole |-> whole, pc |-> "new", plan |-> NoPlan, next |-> 1]]
    /\ UNCHANGED <<initData, lastShas, lock, issued, objects, finished, upClock>>

UploadStep(u) ==
    \/ Enter(u) \/ Prepare(u) \/ Copy(u) \/ Fail(u) \/ FailLate(u)
    \/ Put(u) \/ Incomplete(u) \/ Finish(u) \/ Finished(u)
    \/ \E usable \in 0 .. Len(job[u].files), stored \in SUBSET DOMAIN job[u].files :
           Planned(u, usable, stored)

UploadNext ==
    \/ \E u \in Uploads : UploadStep(u) \/ \E l \in Lists, w \in BOOLEAN : Reuse(u, l, w)
    \/ UpTick

UploadSpec == UploadInit /\ [][UploadNext]_upload

-----------------------------------------------------------------------------
\* Every object is put where a plan for that very content says, although the
\* calls share one cache: no plan, bucket or key of another call
\* ("...串单", helper_utils.rs:32), no plan of an earlier list of files.  What a
\* file contains when put_object reads it again, after its hash was taken, is
\* not part of the claim.
RightObject ==
    \A u \in Uploads : job[u].plan # NoPlan => job[u].plan.shas = job[u].files

\* FinishUpload tells the server of files that are all there, each put under
\* this plan or stored before, even after calls that failed half-way.
FinishedWhole ==
    \A f \in finished : Objects(f[1], f[2], DOMAIN f[2]) \subseteq objects

\* At most one call is between the lock and its end, and the plan it uses is
\* the cached one: nobody replaces it meanwhile.
OneUpload ==
    \A u \in Uploads : job[u].pc \in {"put", "finish"} => lock = u /\ initData = job[u].plan
=============================================================================
