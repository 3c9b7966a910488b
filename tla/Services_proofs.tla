--------------------------- MODULE Services_proofs ---------------------------
(***************************************************************************)
(* Proofs about the services above the transport.                          *)
(*   - Endpoints, for every set of accounts, every number of resends and   *)
(*     every method: whose identity a call has, and what the verdict of a  *)
(*     write says of the server.                                           *)
(*   - Upload, for any number of concurrent calls, any files and any       *)
(*     validity of plans: one call at a time works with the cached plan,   *)
(*     it works with the plan for its own files, and a finished plan is    *)
(*     complete.                                                           *)
(*   - Pages, for lists, pages and limits of any length: a walk sees every *)
(*     row once, a Pager every page.                                       *)
(***************************************************************************)
EXTENDS Endpoints, Upload, Pages, FiniteSetTheorems, SequenceTheorems, TLAPS

-----------------------------------------------------------------------------
\* Endpoints

\* The classes of methods

\* A method that is anonymous on purpose has no other use of credentials.
LEMMA AnonymousApart ==
    \A e \in Anonymous : e \notin UserHomepage \cup Naming \cup Snapshots \cup Given
<1>1. Anonymous \cap (UserHomepage \cup Snapshots) = {}
  BY DEF Anonymous, SongComments, DiscoveryReads, WebRecommendations, TopWebReads, QuickSearch,
         UserHomepage, Snapshots, ExpiryChecks, CredentialRefreshes, Logouts
<1>2. Anonymous \cap Given = {}
  BY DEF Anonymous, SongComments, DiscoveryReads, WebRecommendations, TopWebReads, QuickSearch,
         Given, WebFeed, DailyRecommendation, UserProfile, AccountPages, AccountWrites
<1>3. Anonymous \cap (SongUrls \cup SongVkey \cup UserFavourites) = {}
  BY DEF Anonymous, SongComments, DiscoveryReads, WebRecommendations, TopWebReads, QuickSearch,
         SongUrls, SongVkey, UserFavourites
<1>4. QED
  BY <1>1, <1>2, <1>3 DEF Naming

\* No caller can give a credential to an anonymous method.
LEMMA AnonymousArguments == \A e \in Anonymous : Arguments(e) = {NoArgument}
  BY AnonymousApart DEF Arguments

\* A write is never sent again.
LEMMA WritesOnce == \A e \in Writes : ~MayResend(e)
  BY DEF MayResend

-----------------------------------------------------------------------------
\* Endpoints: the inductive invariants

\* Before its first request a call has neither credential nor token; its
\* argument is one its method takes.
CallInv ==
    /\ argument \in Accounts \cup {NoArgument}
    /\ callPc = "idle" => {naming, carrier, token} = {NoAccount} /\ argument = NoArgument
    /\ callPc # "idle" => argument \in Arguments(endpoint)

IdentityInv == CallInv /\ ExplicitIsWhole

\* Until the call is over nothing was changed and nothing said.
EffectInv ==
    /\ callPc # "over" => applied = 0 /\ reply = "none" /\ verdict = "none"
    /\ AnswerMeansEffect

LEMMA BeginIdentity ==
    ASSUME IdentityInv, NEW e \in EndpointNames, NEW a \in Accounts \cup {NoArgument},
           BeginCall(e, a)
    PROVE  IdentityInv'
<1>0. /\ endpoint' = e /\ argument' = a /\ a \in Arguments(e) /\ callPc' = "first"
      /\ carrier' = NoAccount /\ token' = NoAccount
  BY DEF BeginCall, IdentityInv, CallInv
<1>1. CallInv'
  BY <1>0 DEF CallInv
<1>2. a # NoArgument => naming' \in {a, NoAccount}
  <2>1. SUFFICES ASSUME a # NoArgument PROVE naming' \in {a, NoAccount}
    OBVIOUS
  <2>2. a # Guest /\ OrCurrent(a) = a
    BY <2>1, EndpointsAssumption DEF OrCurrent
  <2>3. e \in UserHomepage => Homepage = a
    BY <1>0, <2>1, <2>2 DEF Homepage, OrCurrent
  <2>4. CASE e \in UserHomepage /\ e \notin Naming \cup Snapshots
    BY <2>3, <2>4 DEF BeginCall
  <2>5. CASE e \in UserHomepage /\ e \in Naming \cup Snapshots
    BY <2>2, <2>3, <2>5 DEF BeginCall
  <2>6. CASE e \notin UserHomepage /\ e \in Naming \cup Snapshots
    BY <2>2, <2>6 DEF BeginCall
  <2>7. CASE e \notin UserHomepage /\ e \notin Naming \cup Snapshots
    BY <2>7 DEF BeginCall
  <2>8. QED
    BY <2>4, <2>5, <2>6, <2>7
<1>3. e \in Anonymous => naming' = NoAccount
  BY AnonymousApart DEF BeginCall
<1>4. ExplicitIsWhole'
  BY <1>0, <1>2, <1>3 DEF ExplicitIsWhole
<1>5. QED
  BY <1>1, <1>4 DEF IdentityInv

LEMMA CaptureIdentity ==
    ASSUME IdentityInv, CaptureCredential
    PROVE  IdentityInv'
<1>0. /\ UNCHANGED <<endpoint, argument, naming, token>>
      /\ callPc # "idle" /\ callPc' # "idle" /\ carrier' = Captured(endpoint)
  BY DEF CaptureCredential, Told
<1>1. CallInv'
  BY <1>0 DEF IdentityInv, CallInv, Arguments
<1>2. CASE endpoint \in Anonymous
  <2>1. argument = NoArgument /\ carrier' = Guest
    BY <1>0, <1>2, AnonymousApart, AnonymousArguments DEF IdentityInv, CallInv, Captured
  <2>2. QED
    BY <1>0, <1>1, <1>2, <2>1 DEF IdentityInv, ExplicitIsWhole
<1>3. CASE endpoint \notin Anonymous
  <2>1. carrier' = IF endpoint \in Snapshots THEN naming ELSE OrCurrent(argument)
    BY <1>0, <1>3 DEF Captured
  <2>2. argument # NoArgument => carrier' \in {argument, NoAccount}
    BY <2>1 DEF OrCurrent, IdentityInv, ExplicitIsWhole
  <2>3. QED
    BY <1>0, <1>1, <1>3, <2>2 DEF IdentityInv, ExplicitIsWhole
<1>4. QED
  BY <1>2, <1>3

\* Everything else leaves parameters and credential alone; a token is the
\* carrier's.
LEMMA LaterIdentity ==
    ASSUME IdentityInv, UNCHANGED <<endpoint, argument, naming, carrier>>,
           token' \in {token, carrier},
           callPc = "idle" => callPc' = "idle" /\ token' = token,
           callPc # "idle" => callPc' # "idle",
           token' # token => endpoint \notin Anonymous
    PROVE  IdentityInv'
  BY DEF IdentityInv, CallInv, ExplicitIsWhole, Arguments

LEMMA ClearDislikesNamed == ClearDislikes \cap Anonymous = {}
  BY DEF ClearDislikes, Anonymous, SongComments, DiscoveryReads, WebRecommendations, TopWebReads,
         QuickSearch

\* Every step of the call and of the other tasks preserves it.
LEMMA IdentityNext == IdentityInv /\ [EndpointNext]_endpointCall => IdentityInv'
<1> SUFFICES ASSUME IdentityInv, [EndpointNext]_endpointCall PROVE IdentityInv'
  OBVIOUS
<1>1. CASE UNCHANGED endpointCall
  BY <1>1, LaterIdentity DEF endpointCall
<1>2. ASSUME NEW e \in EndpointNames, NEW a \in Accounts \cup {NoArgument}, BeginCall(e, a)
      PROVE  IdentityInv'
  BY <1>2, BeginIdentity
<1>3. CASE CaptureCredential
  BY <1>3, CaptureIdentity
<1>4. CASE GetToken
  BY <1>4, LaterIdentity, ClearDislikesNamed DEF GetToken, FetchesToken
<1>5. CASE AnswerArrives \/ AnswerFails
  BY <1>5, LaterIdentity DEF AnswerArrives, AnswerFails, Told, Asking
<1>6. ASSUME NEW done \in BOOLEAN, AnswerLost(done) \/ AnswerRefuses(done) \/ AnswerIsVague(done)
      PROVE  IdentityInv'
  BY <1>6, LaterIdentity DEF AnswerLost, AnswerRefuses, AnswerIsVague, Told, Asking
<1>7. ASSUME NEW c \in Accounts \cup {Guest}, SwitchCurrent(c) PROVE IdentityInv'
  BY <1>7, LaterIdentity DEF SwitchCurrent
<1>8. QED
  BY <1>1, <1>2, <1>3, <1>4, <1>5, <1>6, <1>7 DEF EndpointNext

-----------------------------------------------------------------------------
\* A call that ends with one effect or none.
LEMMA EndsWell ==
    ASSUME callPc' = "over", applied' = 0 \/ applied' = 1,
           applied' = 0 => verdict' # "done",
           applied' = 1 /\ verdict' = "undone" =>
             reply' = "partly" \/ (reply' = "vague" /\ endpoint' \notin AccountWrites)
    PROVE  EffectInv'
<1>1. applied' \in Nat
  OBVIOUS
<1>2. applied' <= 1 /\ (applied' = 0 => applied' # 1)
  BY <1>1
<1>3. QED
  BY <1>1, <1>2 DEF EffectInv, AnswerMeansEffect

\* An answer, or its loss, changes something once, and only for a write,
\* which ends with it.
LEMMA EffectNext == EffectInv /\ [EndpointNext]_endpointCall => EffectInv'
<1> SUFFICES ASSUME EffectInv, [EndpointNext]_endpointCall PROVE EffectInv'
  OBVIOUS
<1>1. CASE UNCHANGED endpointCall
  BY <1>1 DEF endpointCall, EffectInv, AnswerMeansEffect
<1>2. ASSUME NEW e \in EndpointNames, NEW a \in Accounts \cup {NoArgument}, BeginCall(e, a)
      PROVE  EffectInv'
  BY <1>2 DEF BeginCall, EffectInv, AnswerMeansEffect
<1>3. CASE CaptureCredential
  BY <1>3 DEF CaptureCredential, Told, EffectInv, AnswerMeansEffect
<1>4. CASE GetToken
  BY <1>4 DEF GetToken, FetchesToken, EffectInv, AnswerMeansEffect
<1>5. CASE AnswerArrives
  <2>1. applied = 0 /\ callPc' = "over" /\ applied' = (IF CarriesOut THEN 1 ELSE 0)
    BY <1>5 DEF AnswerArrives, Asking, Told, EffectInv
  <2>2. verdict' # "undone" /\ (verdict' = "done" => CarriesOut)
    BY <1>5 DEF AnswerArrives, Told
  <2>3. QED
    BY <2>1, <2>2, EndsWell
<1>6. CASE AnswerFails
  <2>1. applied' = 0 /\ callPc' = "over" /\ verdict' = "error"
    BY <1>6 DEF AnswerFails, Asking, Told, EffectInv
  <2>2. QED
    BY <2>1, EndsWell
<1>7. ASSUME NEW done \in BOOLEAN, AnswerLost(done) PROVE EffectInv'
  <2>1. applied = 0 /\ verdict = "none"
    BY <1>7 DEF AnswerLost, Asking, EffectInv
  <2>2. CASE done
    <3>1. applied' = 1 /\ ~MayResend(endpoint)
      BY <1>7, <2>1, <2>2, WritesOnce DEF AnswerLost, CarriesOut
    <3>2. callPc' = "over" /\ verdict' = "error"
      BY <1>7, <3>1 DEF AnswerLost, Told
    <3>3. QED
      BY <3>1, <3>2, EndsWell
  <2>3. CASE ~done
    <3>1. applied' = 0
      BY <1>7, <2>1, <2>3 DEF AnswerLost
    <3>2. CASE callPc' = "over" /\ verdict' = "error"
      BY <3>1, <3>2, EndsWell
    <3>3. CASE UNCHANGED <<callPc, verdict>>
      BY <1>7, <2>1, <3>1, <3>3 DEF AnswerLost, EffectInv, AnswerMeansEffect
    <3>4. QED
      BY <1>7, <3>2, <3>3 DEF AnswerLost, Told
  <2>4. QED
    BY <2>2, <2>3
<1>8. ASSUME NEW done \in BOOLEAN, AnswerIsVague(done) PROVE EffectInv'
  <2>1. applied = 0
    BY <1>8 DEF AnswerIsVague, Asking, EffectInv
  <2>2. applied' = 0 \/ applied' = 1
    BY <1>8, <2>1 DEF AnswerIsVague
  <2>3. /\ callPc' = "over" /\ verdict' # "done" /\ reply' = "vague" /\ endpoint' = endpoint
        /\ verdict' = "undone" => endpoint \notin AccountWrites
    BY <1>8 DEF AnswerIsVague, Told, Unconfirmed
  <2>4. QED
    BY <2>2, <2>3, EndsWell
<1>9. ASSUME NEW some \in BOOLEAN, AnswerRefuses(some) PROVE EffectInv'
  <2>1. applied = 0
    BY <1>9 DEF AnswerRefuses, Asking, EffectInv
  <2>2. /\ applied' = (IF some THEN 1 ELSE 0) /\ (some => reply' = "partly")
        /\ callPc' = "over" /\ verdict' = "undone"
    BY <1>9, <2>1 DEF AnswerRefuses, Told
  <2>3. QED
    BY <2>2, EndsWell
<1>10. ASSUME NEW c \in Accounts \cup {Guest}, SwitchCurrent(c) PROVE EffectInv'
  BY <1>10 DEF SwitchCurrent, EffectInv, AnswerMeansEffect
<1>11. QED
  BY <1>1, <1>2, <1>3, <1>4, <1>5, <1>6, <1>7, <1>8, <1>9, <1>10 DEF EndpointNext

-----------------------------------------------------------------------------
\* A call with an explicit credential is that account's in its parameters,
\* requests and tokens, and an anonymous one is nobody's: for every method,
\* any number of accounts and any switching of the client's credential.
THEOREM ExplicitIsWholeHolds == EndpointSpec => []ExplicitIsWhole
<1>1. EndpointInit => IdentityInv
  BY DEF EndpointInit, IdentityInv, CallInv, ExplicitIsWhole
<1>2. IdentityInv => ExplicitIsWhole
  BY DEF IdentityInv
<1>3. QED
  BY <1>1, <1>2, IdentityNext, PTL DEF EndpointSpec

\* No call carries a write out twice; done was carried out, and undone was not,
\* except where a part was refused or a method that returns a bool was answered
\* without the field that confirms it: for every method and any number of resends
\* of reads.
THEOREM AnswerMeansEffectHolds == EndpointSpec => []AnswerMeansEffect
<1>1. EndpointInit => EffectInv
  BY DEF EndpointInit, EffectInv, AnswerMeansEffect
<1>2. EffectInv => AnswerMeansEffect
  BY DEF EffectInv
<1>3. QED
  BY <1>1, <1>2, EffectNext, PTL DEF EndpointSpec

-----------------------------------------------------------------------------
\* Upload: the inductive invariant

Section == {"locked", "init", "ready", "put", "finish"}
Prepared == {"init", "ready", "put", "finish"}

\* Whoever works has the lock.
Holding == \A u \in Uploads : job[u].pc \in Section => lock = u

\* The cached plan is for the files of the last call, which is the one that
\* works.
Cached ==
    /\ initData # NoPlan => initData.shas = lastShas
    /\ \A u \in Uploads : job[u].pc \in Prepared => lastShas = job[u].files

\* A copy is of the cached plan as long as it is used.
Copied ==
    \A u \in Uploads : job[u].pc \in {"put", "finish"} =>
        job[u].plan # NoPlan /\ job[u].plan = initData

\* What a plan calls stored is there, and so is what was put.
Stored ==
    /\ initData # NoPlan => Objects(initData.id, initData.shas, initData.stored) \subseteq objects
    /\ \A u \in Uploads : job[u].pc = "put" =>
           Objects(job[u].plan.id, job[u].files, 1 .. job[u].next - 1) \subseteq objects
    /\ \A u \in Uploads : job[u].pc = "finish" =>
           Objects(job[u].plan.id, job[u].files, DOMAIN job[u].files) \subseteq objects

UploadInv ==
    UploadTypeOK /\ Holding /\ Cached /\ Copied /\ RightObject /\ Stored /\ FinishedWhole

-----------------------------------------------------------------------------
\* Upload: operators

\* Fewer positions, fewer objects.
LEMMA ObjectsGrow ==
    ASSUME NEW id, NEW files, NEW P, NEW Q, P \subseteq Q
    PROVE  Objects(id, files, P) \subseteq Objects(id, files, Q)
  BY DEF Objects

\* The objects of two sets of positions are those of their union.
LEMMA ObjectsUnion ==
    ASSUME NEW id, NEW files, NEW P, NEW Q
    PROVE  Objects(id, files, P \cup Q) \subseteq Objects(id, files, P) \cup Objects(id, files, Q)
  BY DEF Objects

\* A list of files, and its positions.
LEMMA ListPositions ==
    ASSUME NEW files \in Lists
    PROVE  Len(files) \in Nat /\ DOMAIN files = 1 .. Len(files)
<1>1. files \in Seq(Shas)
  BY UploadAssumption
<1>2. QED
  BY <1>1

\* A call that changes its place only.
LEMMA Moved ==
    ASSUME UploadTypeOK, NEW u \in Uploads, NEW e,
           e \in {"new", "locked", "init", "ready", "put", "finish", "done", "failed"},
           job' = [job EXCEPT ![u].pc = e]
    PROVE  \E j \in Jobs :
             /\ job' = [job EXCEPT ![u] = j]
             /\ j.pc = e /\ j.files = job[u].files
             /\ j.plan = job[u].plan /\ j.next = job[u].next
<1>1. job[u] \in Jobs
  BY DEF UploadTypeOK
<1>2. [job[u] EXCEPT !.pc = e] \in Jobs
  BY <1>1 DEF Jobs
<1>3. job' = [job EXCEPT ![u] = [job[u] EXCEPT !.pc = e]]
  OBVIOUS
<1>4. /\ [job[u] EXCEPT !.pc = e].pc = e
      /\ [job[u] EXCEPT !.pc = e].files = job[u].files
      /\ [job[u] EXCEPT !.pc = e].plan = job[u].plan
      /\ [job[u] EXCEPT !.pc = e].next = job[u].next
  BY <1>1 DEF Jobs
<1>5. WITNESS [job[u] EXCEPT !.pc = e] \in Jobs
<1>6. QED
  BY <1>3, <1>4

\* A step of one call: the others do not work while it changes the cache.
LEMMA JobStep ==
    ASSUME UploadInv, NEW u \in Uploads, NEW j \in Jobs, job' = [job EXCEPT ![u] = j],
           initData' = NoPlan \/ initData' \in Plan, lastShas' \in Lists \cup {<<>>},
           lock' \in Uploads \cup {Nobody}, issued' \in 0 .. MaxPlans, UNCHANGED upClock,
           \A v \in Uploads \ {u} : lock = v => lock' = v,
           j.pc \in Section => lock' = u,
           <<initData', lastShas'>> # <<initData, lastShas>> => lock = u,
           initData' # NoPlan => initData'.shas = lastShas',
           j.pc \in Prepared => lastShas' = j.files,
           j.pc \in {"put", "finish"} => j.plan # NoPlan /\ j.plan = initData',
           j.plan # NoPlan => j.plan.shas = j.files,
           objects \subseteq objects',
           initData' # NoPlan =>
               Objects(initData'.id, initData'.shas, initData'.stored) \subseteq objects',
           j.pc = "put" => Objects(j.plan.id, j.files, 1 .. j.next - 1) \subseteq objects',
           j.pc = "finish" => Objects(j.plan.id, j.files, DOMAIN j.files) \subseteq objects',
           FinishedWhole'
    PROVE  UploadInv'
<1>0. /\ job' \in [Uploads -> Jobs] /\ job'[u] = j
      /\ \A v \in Uploads \ {u} : job'[v] = job[v]
  BY DEF UploadInv, UploadTypeOK
<1>1. UploadTypeOK'
  BY <1>0 DEF UploadInv, UploadTypeOK
<1>2. Holding'
  BY <1>0 DEF UploadInv, Holding
<1>3. ASSUME NEW v \in Uploads \ {u}, job[v].pc \in Section
      PROVE  initData' = initData /\ lastShas' = lastShas
  BY <1>3 DEF UploadInv, Holding
<1>4. Cached'
  BY <1>0, <1>3 DEF UploadInv, Cached, Section, Prepared
<1>5. Copied'
  BY <1>0, <1>3 DEF UploadInv, Copied, Section
<1>6. RightObject'
  BY <1>0 DEF UploadInv, RightObject
<1>7. Stored'
  <2>1. ASSUME NEW v \in Uploads, job'[v].pc = "put"
        PROVE  Objects(job'[v].plan.id, job'[v].files, 1 .. job'[v].next - 1) \subseteq objects'
    BY <1>0, <2>1 DEF UploadInv, Stored
  <2>2. ASSUME NEW v \in Uploads, job'[v].pc = "finish"
        PROVE  Objects(job'[v].plan.id, job'[v].files, DOMAIN job'[v].files) \subseteq objects'
    BY <1>0, <2>2 DEF UploadInv, Stored
  <2>3. QED
    BY <2>1, <2>2 DEF Stored, Objects
<1>8. QED
  BY <1>1, <1>2, <1>4, <1>5, <1>6, <1>7 DEF UploadInv

\* What is finished stays whole as long as no object goes.
LEMMA StillWhole ==
    ASSUME UploadInv, objects \subseteq objects', finished' = finished
    PROVE  FinishedWhole'
  BY DEF UploadInv, FinishedWhole, Objects

-----------------------------------------------------------------------------
\* Upload: the actions, one lemma each

\* A call that ends gives the lock back and leaves the rest alone.
LEMMA ReleaseInv ==
    ASSUME UploadInv, NEW u \in Uploads, NEW e \in {"done", "failed"}, Release(u, e),
           UNCHANGED <<initData, lastShas, issued, upClock>>,
           objects \subseteq objects', FinishedWhole'
    PROVE  UploadInv'
<1>1. PICK j \in Jobs : /\ job' = [job EXCEPT ![u] = j] /\ j.pc = e
                        /\ j.files = job[u].files /\ j.plan = job[u].plan
  <2>1. UploadTypeOK /\ job' = [job EXCEPT ![u].pc = e]
    BY DEF Release, UploadInv
  <2>2. CASE e = "done"
    <3>1. UploadTypeOK /\ job' = [job EXCEPT ![u].pc = "done"]
      BY <2>1, <2>2
    <3>2. \E j \in Jobs : /\ job' = [job EXCEPT ![u] = j]
                          /\ j.pc = "done" /\ j.files = job[u].files
                          /\ j.plan = job[u].plan /\ j.next = job[u].next
      BY <3>1, Moved
    <3>3. QED
      BY <2>2, <3>2
  <2>3. CASE e = "failed"
    <3>1. UploadTypeOK /\ job' = [job EXCEPT ![u].pc = "failed"]
      BY <2>1, <2>3
    <3>2. \E j \in Jobs : /\ job' = [job EXCEPT ![u] = j]
                          /\ j.pc = "failed" /\ j.files = job[u].files
                          /\ j.plan = job[u].plan /\ j.next = job[u].next
      BY <3>1, Moved
    <3>3. QED
      BY <2>3, <3>2
  <2>4. QED
    BY <2>2, <2>3
<1>2. j.pc \notin Section \cup Prepared
  BY <1>1 DEF Section, Prepared
<1>3. j.plan # NoPlan => j.plan.shas = j.files
  BY <1>1 DEF UploadInv, RightObject
<1>4. /\ lock' \in Uploads \cup {Nobody} /\ \A v \in Uploads \ {u} : lock = v => lock' = v
      /\ initData' = NoPlan \/ initData' \in Plan
      /\ lastShas' \in Lists \cup {<<>>} /\ issued' \in 0 .. MaxPlans
  BY DEF Release, UploadInv, UploadTypeOK
<1>5. initData' # NoPlan => /\ initData'.shas = lastShas'
                            /\ Objects(initData'.id, initData'.shas, initData'.stored) \subseteq objects'
  BY DEF UploadInv, Cached, Stored, Objects
<1>6. QED
  BY <1>1, <1>2, <1>3, <1>4, <1>5, JobStep DEF Section, Prepared

LEMMA EnterInv ==
    ASSUME UploadInv, NEW u \in Uploads, Enter(u)
    PROVE  UploadInv'
<1>1. PICK j \in Jobs : /\ job' = [job EXCEPT ![u] = j] /\ j.pc = "locked"
                        /\ j.files = job[u].files /\ j.plan = job[u].plan
  <2>1. UploadTypeOK /\ job' = [job EXCEPT ![u].pc = "locked"]
    BY DEF Enter, UploadInv
  <2>2. QED
    BY <2>1, Moved
<1>2. /\ lock = Nobody /\ lock' = u /\ Nobody \notin Uploads
      /\ UNCHANGED <<initData, lastShas, issued, objects, finished, upClock>>
  BY UploadAssumption DEF Enter
<1>3. j.plan # NoPlan => j.plan.shas = j.files
  BY <1>1 DEF UploadInv, RightObject
<1>4. /\ initData' = NoPlan \/ initData' \in Plan
      /\ lastShas' \in Lists \cup {<<>>} /\ issued' \in 0 .. MaxPlans
  BY <1>2 DEF UploadInv, UploadTypeOK
<1>5. initData' # NoPlan => /\ initData'.shas = lastShas'
                            /\ Objects(initData'.id, initData'.shas, initData'.stored) \subseteq objects'
  BY <1>2 DEF UploadInv, Cached, Stored
<1>6. FinishedWhole'
  BY <1>2, StillWhole
<1>7. QED
  BY <1>1, <1>2, <1>3, <1>4, <1>5, <1>6, JobStep DEF Section, Prepared

LEMMA PrepareInv ==
    ASSUME UploadInv, NEW u \in Uploads, Prepare(u)
    PROVE  UploadInv'
<1>1. PICK j \in Jobs : /\ job' = [job EXCEPT ![u] = j] /\ j.pc \in {"ready", "init"}
                        /\ j.files = job[u].files /\ j.plan = job[u].plan
  <2>1. UploadTypeOK /\ job' = [job EXCEPT ![u].pc = IF Fresh(Kept(u)) THEN "ready" ELSE "init"]
    BY DEF Prepare, UploadInv
  <2>2. CASE Fresh(Kept(u))
    <3>1. UploadTypeOK /\ job' = [job EXCEPT ![u].pc = "ready"]
      BY <2>1, <2>2
    <3>2. \E j \in Jobs : /\ job' = [job EXCEPT ![u] = j]
                          /\ j.pc = "ready" /\ j.files = job[u].files
                          /\ j.plan = job[u].plan /\ j.next = job[u].next
      BY <3>1, Moved
    <3>3. QED
      BY <3>2
  <2>3. CASE ~Fresh(Kept(u))
    <3>1. UploadTypeOK /\ job' = [job EXCEPT ![u].pc = "init"]
      BY <2>1, <2>3
    <3>2. \E j \in Jobs : /\ job' = [job EXCEPT ![u] = j]
                          /\ j.pc = "init" /\ j.files = job[u].files
                          /\ j.plan = job[u].plan /\ j.next = job[u].next
      BY <3>1, Moved
    <3>3. QED
      BY <3>2
  <2>4. QED
    BY <2>2, <2>3
<1>2. /\ lock = u /\ lastShas' = job[u].files /\ initData' = Kept(u)
      /\ UNCHANGED <<lock, issued, objects, finished, upClock>>
  BY DEF Prepare, UploadInv, Holding, Section
<1>3. j.plan # NoPlan => j.plan.shas = j.files
  BY <1>1 DEF UploadInv, RightObject
<1>4. /\ initData' = NoPlan \/ initData' \in Plan
      /\ lastShas' \in Lists \cup {<<>>} /\ issued' \in 0 .. MaxPlans
  BY <1>1, <1>2 DEF UploadInv, UploadTypeOK, Kept, Jobs
<1>5. initData' # NoPlan => /\ initData'.shas = lastShas'
                            /\ Objects(initData'.id, initData'.shas, initData'.stored) \subseteq objects'
  BY <1>2 DEF UploadInv, Cached, Stored, Kept
<1>6. FinishedWhole'
  BY <1>2, StillWhole
<1>7. QED
  BY <1>1, <1>2, <1>3, <1>4, <1>5, <1>6, JobStep DEF Section, Prepared

LEMMA PlannedInv ==
    ASSUME UploadInv, NEW u \in Uploads, NEW usable \in 0 .. Len(job[u].files),
           NEW stored \in SUBSET DOMAIN job[u].files, Planned(u, usable, stored)
    PROVE  UploadInv'
<1>1. PICK j \in Jobs : /\ job' = [job EXCEPT ![u] = j] /\ j.pc = "ready"
                        /\ j.files = job[u].files /\ j.plan = job[u].plan
  <2>1. UploadTypeOK /\ job' = [job EXCEPT ![u].pc = "ready"]
    BY DEF Planned, UploadInv
  <2>2. QED
    BY <2>1, Moved
<1>2. /\ lock = u /\ lastShas = job[u].files /\ lastShas \in Lists
      /\ UNCHANGED <<lastShas, lock, finished, upClock>>
  BY <1>1 DEF Planned, UploadInv, Holding, Cached, Section, Prepared, Jobs
<1>3. j.plan # NoPlan => j.plan.shas = j.files
  BY <1>1 DEF UploadInv, RightObject
<1>4. issued + 1 \in 1 .. MaxPlans /\ issued' = issued + 1 /\ issued' \in 0 .. MaxPlans
  BY UploadAssumption DEF Planned, UploadInv, UploadTypeOK
<1>5. usable \in Nat /\ stored \in SUBSET Nat
  BY <1>2, ListPositions
<1>6. upClock + Validity \in Nat
  BY UploadAssumption DEF UploadInv, UploadTypeOK
<1>7. initData' \in Plan /\ initData'.shas = lastShas
  BY <1>2, <1>4, <1>5, <1>6 DEF Planned, Plan
<1>8. /\ objects \subseteq objects'
      /\ Objects(initData'.id, initData'.shas, initData'.stored) \subseteq objects'
  BY DEF Planned
<1>9. FinishedWhole'
  BY <1>2, <1>8, StillWhole
<1>10. lock' = u /\ \A v \in Uploads \ {u} : lock = v => lock' = v
  BY <1>2
<1>11. j.pc \notin {"put", "finish"} /\ lastShas' = j.files /\ initData'.shas = lastShas'
  BY <1>1, <1>2, <1>7
<1>12. QED
  BY <1>1, <1>2, <1>3, <1>4, <1>7, <1>8, <1>9, <1>10, <1>11, JobStep


\* upload takes its copy of the plan, which is the plan for its files.
LEMMA CopyInv ==
    ASSUME UploadInv, NEW u \in Uploads, Copy(u)
    PROVE  UploadInv'
<1>0. /\ lock = u /\ lastShas = job[u].files
      /\ UNCHANGED <<initData, lastShas, issued, objects, finished, upClock>>
  BY DEF Copy, UploadInv, Holding, Cached, Section, Prepared
<1>1. FinishedWhole'
  BY <1>0, StillWhole
<1>2. CASE ~job[u].whole
  BY <1>0, <1>1, <1>2, ReleaseInv DEF Copy
<1>3. CASE job[u].whole
  <2>0. DEFINE e == IF initData = NoPlan THEN "failed" ELSE "put"
               j == [job[u] EXCEPT !.plan = initData, !.next = 1, !.pc = e]
  <2>1. job[u] \in Jobs /\ (initData = NoPlan \/ initData \in Plan)
    BY DEF UploadInv, UploadTypeOK
  <2>2. e \in {"failed", "put"}
    OBVIOUS
  <2>3. /\ j \in Jobs /\ j.pc = e /\ j.files = job[u].files /\ j.plan = initData /\ j.next = 1
    BY <2>1, <2>2 DEF Jobs
  <2>4. /\ job' = [job EXCEPT ![u] = j]
        /\ lock' = IF initData = NoPlan THEN Nobody ELSE lock
    BY <1>0, <1>3 DEF Copy
  <2>5. e = "put" => initData # NoPlan
    OBVIOUS
  <2>6. /\ lock' \in Uploads \cup {Nobody} /\ \A v \in Uploads \ {u} : lock = v => lock' = v
        /\ e = "put" => lock' = u
    BY <1>0, <2>4
  <2>7. e \notin {"init", "ready", "locked", "finish"}
    OBVIOUS
  <2> HIDE DEF e, j
  <2>8. j.pc \in Section => lock' = u
    BY <2>3, <2>6, <2>7 DEF Section
  <2>9. j.pc \in Prepared => lastShas' = j.files
    BY <1>0, <2>3
  <2>10. j.pc \in {"put", "finish"} => j.plan # NoPlan /\ j.plan = initData'
    BY <1>0, <2>3, <2>5, <2>7
  <2>11. j.plan # NoPlan => j.plan.shas = j.files
    BY <1>0, <2>3 DEF UploadInv, Cached
  <2>12. Objects(j.plan.id, j.files, 1 .. j.next - 1) \subseteq objects'
    <3>1. 1 .. 1 - 1 = {}
      OBVIOUS
    <3>2. QED
      BY <2>3, <3>1 DEF Objects
  <2>13. initData' # NoPlan => /\ initData'.shas = lastShas'
                               /\ Objects(initData'.id, initData'.shas, initData'.stored) \subseteq objects'
    BY <1>0 DEF UploadInv, Cached, Stored
  <2>14. /\ initData' = NoPlan \/ initData' \in Plan
         /\ lastShas' \in Lists \cup {<<>>} /\ issued' \in 0 .. MaxPlans
    BY <1>0 DEF UploadInv, UploadTypeOK
  <2>15. j.pc # "finish"
    BY <2>3, <2>7
  <2>16. QED
    BY <1>0, <1>1, <2>3, <2>4, <2>6, <2>8, <2>9, <2>10, <2>11, <2>12, <2>13, <2>14, <2>15, JobStep
<1>4. QED
  BY <1>2, <1>3

\* A file is put, or was stored before: it is there, and so are those before it.
LEMMA PutInv ==
    ASSUME UploadInv, NEW u \in Uploads, Put(u)
    PROVE  UploadInv'
<1>0. DEFINE j == [job[u] EXCEPT !.next = @ + 1]
             plan == job[u].plan
             files == job[u].files
             n == job[u].next
<1>1. /\ job[u] \in Jobs /\ n \in Nat /\ job[u].pc = "put"
  BY DEF UploadInv, UploadTypeOK, Jobs, Put
<1>2. /\ lock = u /\ lastShas = files /\ plan # NoPlan /\ plan = initData /\ plan.shas = files
      /\ UNCHANGED <<initData, lastShas, lock, issued, finished, upClock>>
  BY <1>1 DEF Put, UploadInv, Holding, Cached, Copied, RightObject, Section, Prepared
<1>3. /\ j \in Jobs /\ j.pc = "put" /\ j.files = files /\ j.plan = plan /\ j.next = n + 1
  BY <1>1 DEF Jobs
<1>4. job' = [job EXCEPT ![u] = j]
  BY DEF Put, Advance
<1>5. objects' = objects \cup Objects(plan.id, files, {n} \ plan.stored)
  BY DEF Put
<1>6. Objects(plan.id, files, plan.stored) \subseteq objects
  BY <1>2 DEF UploadInv, Stored
<1>7. Objects(plan.id, files, 1 .. n - 1) \subseteq objects
  BY <1>1 DEF UploadInv, Stored
<1> HIDE DEF j, plan, files, n
<1>8. Objects(plan.id, files, 1 .. (n + 1) - 1) \subseteq objects'
  <2>1. 1 .. (n + 1) - 1 \subseteq (1 .. n - 1) \cup (plan.stored \cup ({n} \ plan.stored))
    BY <1>1
  <2>2. QED
    BY <1>5, <1>6, <1>7, <2>1 DEF Objects
<1>9. objects \subseteq objects'
  BY <1>5
<1>10. FinishedWhole'
  BY <1>2, <1>9, StillWhole
<1>11. /\ initData' \in Plan /\ lastShas' \in Lists \cup {<<>>} /\ issued' \in 0 .. MaxPlans
       /\ lock' \in Uploads \cup {Nobody}
  BY <1>2 DEF UploadInv, UploadTypeOK
<1>12. /\ initData'.shas = lastShas'
       /\ Objects(initData'.id, initData'.shas, initData'.stored) \subseteq objects'
  BY <1>2, <1>6, <1>9
<1>13. QED
  BY <1>2, <1>3, <1>4, <1>8, <1>9, <1>10, <1>11, <1>12, JobStep

\* After the last position every file is there.
LEMMA FinishInv ==
    ASSUME UploadInv, NEW u \in Uploads, Finish(u)
    PROVE  UploadInv'
<1>1. PICK j \in Jobs : /\ job' = [job EXCEPT ![u] = j]
                        /\ j.pc = "finish" /\ j.files = job[u].files
                        /\ j.plan = job[u].plan /\ j.next = job[u].next
  <2>1. UploadTypeOK /\ job' = [job EXCEPT ![u].pc = "finish"]
    BY DEF Finish, UploadInv
  <2>2. QED
    BY <2>1, Moved
<1>2. /\ job[u].pc = "put" /\ job[u].files \in Lists /\ job[u].next \in Nat
      /\ job[u].next > Len(job[u].files)
      /\ UNCHANGED <<initData, lastShas, lock, issued, objects, finished, upClock>>
  BY DEF Finish, UploadInv, UploadTypeOK, Jobs
<1>3. /\ lock = u /\ lastShas = job[u].files /\ job[u].plan # NoPlan /\ job[u].plan = initData
      /\ job[u].plan.shas = job[u].files
  BY <1>2 DEF UploadInv, Holding, Cached, Copied, RightObject, Section, Prepared
<1>4. DOMAIN job[u].files \subseteq 1 .. job[u].next - 1
  BY <1>2, ListPositions
<1>5. Objects(job[u].plan.id, job[u].files, DOMAIN job[u].files) \subseteq objects
  BY <1>2, <1>4 DEF UploadInv, Stored, Objects
<1>6. /\ initData' = NoPlan \/ initData' \in Plan
      /\ lastShas' \in Lists \cup {<<>>} /\ issued' \in 0 .. MaxPlans
      /\ lock' \in Uploads \cup {Nobody}
  BY <1>2 DEF UploadInv, UploadTypeOK
<1>7. initData' # NoPlan => /\ initData'.shas = lastShas'
                            /\ Objects(initData'.id, initData'.shas, initData'.stored) \subseteq objects'
  BY <1>2 DEF UploadInv, Cached, Stored
<1>8. FinishedWhole'
  BY <1>2, StillWhole
<1>9. QED
  BY <1>1, <1>2, <1>3, <1>5, <1>6, <1>7, <1>8, JobStep

\* What is told of at FinishUpload is complete.
LEMMA TellInv ==
    ASSUME UploadInv, NEW u \in Uploads, job[u].pc = "finish", objects \subseteq objects',
           finished' = finished \cup {<<job[u].plan.id, job[u].files>>}
    PROVE  FinishedWhole'
<1>1. Objects(job[u].plan.id, job[u].files, DOMAIN job[u].files) \subseteq objects
  BY DEF UploadInv, Stored
<1>2. \A f \in finished : Objects(f[1], f[2], DOMAIN f[2]) \subseteq objects
  BY DEF UploadInv, FinishedWhole
<1>3. DEFINE g == <<job[u].plan.id, job[u].files>>
<1>4. g[1] = job[u].plan.id /\ g[2] = job[u].files
  OBVIOUS
<1> HIDE DEF g
<1>5. ASSUME NEW f \in finished' PROVE Objects(f[1], f[2], DOMAIN f[2]) \subseteq objects'
  <2>1. f \in finished \/ f = g
    BY DEF g
  <2>2. CASE f \in finished
    BY <1>2, <2>2
  <2>3. CASE f = g
    BY <1>1, <1>4, <2>3
  <2>4. QED
    BY <2>1, <2>2, <2>3
<1>6. QED
  BY <1>5 DEF FinishedWhole, Objects

\* The ends of a call.
LEMMA EndInv ==
    ASSUME UploadInv, NEW u \in Uploads,
           Fail(u) \/ FailLate(u) \/ Incomplete(u) \/ Finished(u)
    PROVE  UploadInv'
<1>1. CASE Fail(u) \/ Incomplete(u)
  <2>1. /\ Release(u, "failed")
        /\ UNCHANGED <<initData, lastShas, issued, objects, finished, upClock>>
    BY <1>1 DEF Fail, Incomplete
  <2>2. FinishedWhole'
    BY <2>1, StillWhole
  <2>3. QED
    BY <2>1, <2>2, ReleaseInv
<1>2. CASE FailLate(u)
  <2>1. Release(u, "failed") /\ UNCHANGED <<initData, lastShas, issued, upClock>>
    BY <1>2 DEF FailLate
  <2>2. objects \subseteq objects'
    BY <1>2 DEF FailLate
  <2>3. \/ finished' = finished
        \/ /\ job[u].pc = "finish"
           /\ finished' = finished \cup {<<job[u].plan.id, job[u].files>>}
    BY <1>2 DEF FailLate
  <2>4. FinishedWhole'
    BY <2>2, <2>3, StillWhole, TellInv
  <2>5. QED
    BY <2>1, <2>2, <2>4, ReleaseInv
<1>3. CASE Finished(u)
  <2>1. Release(u, "done") /\ UNCHANGED <<initData, lastShas, issued, objects, upClock>>
    BY <1>3 DEF Finished
  <2>2. FinishedWhole'
    BY <1>3, TellInv DEF Finished
  <2>3. QED
    BY <2>1, <2>2, ReleaseInv
<1>4. QED
  BY <1>1, <1>2, <1>3

\* A new call has no plan yet.
LEMMA ReuseInv ==
    ASSUME UploadInv, NEW u \in Uploads, NEW files \in Lists, NEW whole \in BOOLEAN,
           Reuse(u, files, whole)
    PROVE  UploadInv'
<1>0. DEFINE j == [files |-> files, whole |-> whole, pc |-> "new", plan |-> NoPlan, next |-> 1]
<1>1. j \in Jobs /\ j.pc = "new" /\ j.plan = NoPlan
  BY DEF Jobs
<1>2. /\ job' = [job EXCEPT ![u] = j]
      /\ UNCHANGED <<initData, lastShas, lock, issued, objects, finished, upClock>>
  BY DEF Reuse
<1> HIDE DEF j
<1>3. /\ initData' = NoPlan \/ initData' \in Plan
      /\ lastShas' \in Lists \cup {<<>>} /\ issued' \in 0 .. MaxPlans
      /\ lock' \in Uploads \cup {Nobody}
  BY <1>2 DEF UploadInv, UploadTypeOK
<1>4. initData' # NoPlan => /\ initData'.shas = lastShas'
                            /\ Objects(initData'.id, initData'.shas, initData'.stored) \subseteq objects'
  BY <1>2 DEF UploadInv, Cached, Stored
<1>5. FinishedWhole'
  BY <1>2, StillWhole
<1>6. j.pc \notin Section \cup Prepared \cup {"put", "finish"}
  BY <1>1 DEF Section, Prepared
<1>7. QED
  BY <1>1, <1>2, <1>3, <1>4, <1>5, <1>6, JobStep

-----------------------------------------------------------------------------
\* Upload: induction

LEMMA StillInv ==
    ASSUME UploadInv, UNCHANGED <<initData, lastShas, lock, job, issued, objects, finished>>,
           upClock' \in 0 .. MaxUpClock
    PROVE  UploadInv'
<1>1. UploadTypeOK' /\ Holding' /\ Cached' /\ Copied' /\ RightObject'
  BY DEF UploadInv, UploadTypeOK, Holding, Cached, Copied, RightObject
<1>2. Stored' /\ FinishedWhole'
  BY DEF UploadInv, Stored, FinishedWhole
<1>3. QED
  BY <1>1, <1>2 DEF UploadInv

\* It holds when the session is opened.
THEOREM UploadInitInv == UploadInit => UploadInv
<1> SUFFICES ASSUME UploadInit PROVE UploadInv
  OBVIOUS
<1>1. \A u \in Uploads : job[u].pc = "new" /\ job[u].plan = NoPlan
  BY DEF UploadInit
<1>2. UploadTypeOK
  <2>1. [files : Lists, whole : BOOLEAN, pc : {"new"}, plan : {NoPlan}, next : {1}] \subseteq Jobs
    BY DEF Jobs
  <2>2. QED
    BY <2>1, UploadAssumption DEF UploadInit, UploadTypeOK
<1>3. QED
  BY <1>1, <1>2 DEF UploadInit, UploadInv, Holding, Cached, Copied, RightObject, Stored,
                    FinishedWhole, Section, Prepared

\* Every step of every call preserves it.
THEOREM UploadNextInv == UploadInv /\ [UploadNext]_upload => UploadInv'
<1> SUFFICES ASSUME UploadInv, [UploadNext]_upload PROVE UploadInv'
  OBVIOUS
<1>1. CASE UNCHANGED upload
  BY <1>1, StillInv DEF upload, UploadInv, UploadTypeOK
<1>2. CASE UpTick
  <2>1. upClock' \in 0 .. MaxUpClock
    BY <1>2, UploadAssumption DEF UpTick, UploadInv, UploadTypeOK
  <2>2. QED
    BY <1>2, <2>1, StillInv DEF UpTick
<1>3. ASSUME NEW u \in Uploads, UploadStep(u) PROVE UploadInv'
  <2>1. CASE \E usable \in 0 .. Len(job[u].files), stored \in SUBSET DOMAIN job[u].files :
               Planned(u, usable, stored)
    BY <2>1, PlannedInv
  <2>2. CASE Fail(u) \/ FailLate(u) \/ Incomplete(u) \/ Finished(u)
    BY <2>2, EndInv
  <2>3. QED
    BY <1>3, <2>1, <2>2, EnterInv, PrepareInv, CopyInv, PutInv, FinishInv DEF UploadStep
<1>4. ASSUME NEW u \in Uploads, NEW l \in Lists, NEW w \in BOOLEAN, Reuse(u, l, w)
      PROVE  UploadInv'
  BY <1>4, ReuseInv
<1>5. QED
  BY <1>1, <1>2, <1>3, <1>4 DEF UploadNext

\* Every object is put where a plan for that very content says, for any number
\* of calls that share the session and its cache.
THEOREM RightObjectHolds == UploadSpec => []RightObject
<1>1. UploadInv => RightObject
  BY DEF UploadInv
<1>2. QED
  BY <1>1, UploadInitInv, UploadNextInv, PTL DEF UploadSpec

\* FinishUpload tells of files that are all there, even after calls that
\* failed half-way, for lists of any length.
THEOREM FinishedWholeHolds == UploadSpec => []FinishedWhole
<1>1. UploadInv => FinishedWhole
  BY DEF UploadInv
<1>2. QED
  BY <1>1, UploadInitInv, UploadNextInv, PTL DEF UploadSpec

\* At most one call works, with the cached plan, which nobody replaces
\* meanwhile.
THEOREM OneUploadHolds == UploadSpec => []OneUpload
<1>1. UploadInv => OneUpload
  BY DEF UploadInv, Holding, Copied, OneUpload, Section
<1>2. QED
  BY <1>1, UploadInitInv, UploadNextInv, PTL DEF UploadSpec

-----------------------------------------------------------------------------
\* Pages: the inductive invariants

\* The rows of a list up to the n-th.
RowsTo(n) == [i \in 1 .. n |-> i - 1]

\* The types the proofs need.
WalkTypes ==
    /\ walk.op \in Operations /\ walk.honest \in BOOLEAN
    /\ walk.size \in Nat /\ walk.offset \in Nat /\ walk.turns \in Nat

\* What the host has seen is the list up to its offset, and in the end the whole
\* list; every turn went on by one row at least and by a page at most.
WalkInv ==
    /\ WalkTypes
    /\ walk.turns <= walk.offset /\ walk.offset <= walk.turns * Limit
    /\ walk.honest =>
          /\ walk.pc # "failed" /\ walk.offset <= walk.size
          /\ walk.seen = RowsTo(IF walk.pc = "done" THEN walk.size ELSE walk.offset)

\* The parameters of the next page are those after the last answer.
PagerInv ==
    /\ pager.limit \in Nat \cup {Absent}
    /\ pager.yielded = Len(answers) /\ answers \in Seq(Nat)
    /\ \A i \in DOMAIN answers : answers[i] = i
    /\ pager.limit # Absent => Len(answers) <= pager.limit
    /\ pager.params # NoParams =>
          /\ pager.params = Len(answers) + 1
          /\ pager.limit # Absent /\ pager.limit # 0 => Len(answers) < pager.limit
    /\ pager.pc = "fetching" =>
          /\ pager.params = NoParams /\ pager.fetched = Len(answers) + 1
          /\ pager.limit # Absent => Len(answers) < pager.limit

-----------------------------------------------------------------------------
\* Pages: operators

\* A page taken after the first n rows makes the first n + k.
LEMMA RowsOnePage ==
    ASSUME NEW n \in Nat, NEW k \in Nat
    PROVE  RowsTo(n) \o [i \in 1 .. k |-> n + i - 1] = RowsTo(n + k)
<1> DEFINE s == RowsTo(n)
           t == [i \in 1 .. k |-> n + i - 1]
           u == RowsTo(n + k)
<1>1. s \in Seq(Int) /\ Len(s) = n /\ \A i \in 1 .. n : s[i] = i - 1
  BY DEF RowsTo
<1>2. t \in Seq(Int) /\ Len(t) = k /\ \A i \in 1 .. k : t[i] = n + i - 1
  OBVIOUS
<1>3. u \in Seq(Int) /\ Len(u) = n + k /\ \A i \in 1 .. n + k : u[i] = i - 1
  BY DEF RowsTo
<1> HIDE DEF s, t, u
<1>4. /\ s \o t \in Seq(Int) /\ Len(s \o t) = n + k
      /\ \A i \in 1 .. n + k : (s \o t)[i] = IF i <= n THEN s[i] ELSE t[i - n]
  BY <1>1, <1>2, ConcatProperties
<1>5. \A i \in 1 .. n + k : (s \o t)[i] = u[i]
  BY <1>1, <1>2, <1>3, <1>4
<1>6. s \o t = u
  BY <1>3, <1>4, <1>5, SeqEqual
<1>7. QED
  BY <1>6 DEF s, t, u


\* Flags that all say the same are one flag at most.
LEMMA OneFlag ==
    ASSUME NEW F, NEW b, F \subseteq {b}
    PROVE  Cardinality(F) <= 1 /\ (F = {} \/ F = {b})
<1>1. F = {} \/ F = {b}
  OBVIOUS
<1>2. Cardinality({}) = 0 /\ Cardinality({b}) = 1
  BY FS_EmptySet, FS_Singleton
<1>3. QED
  BY <1>1, <1>2

\* parse_page accepts every answer of a server that tells the truth, and ends
\* the walk only at the end of its list.
LEMMA HonestAccepted ==
    ASSUME NEW op \in Operations, NEW size \in Nat, NEW offset \in Nat,
           offset <= size, NEW resp \in Honest(op, size, offset)
    PROVE  LET next == offset + resp.rows IN
           /\ resp.rows \in Nat
           /\ ParsePage(op, offset, resp).accepted
           /\ \/ ParsePage(op, offset, resp).next = next
              \/ ParsePage(op, offset, resp).next = Absent /\ next = size
           /\ next <= size
<1> DEFINE next == offset + resp.rows
           F == Flags(op, resp)
<1>1. /\ resp.code = 0 /\ resp.begin \in {Absent, offset} /\ resp.total \in {Absent, size}
      /\ resp.rows \in Nat /\ resp.rows <= Limit /\ next <= size
      /\ resp.rows = 0 => offset = size
      /\ resp.more = Absent \/ resp.more = (next < size)
      /\ resp.finish = Absent \/ resp.finish = (next = size)
  BY PagesAssumption DEF Honest, Response
<1>2. next \in Nat /\ Absent # size
  BY <1>1, PagesAssumption
<1>3. CASE next < size
  <2>1. resp.more \in {Absent, TRUE} /\ resp.finish \in {Absent, FALSE} /\ resp.rows > 0
    <3>1. next # size /\ resp.rows > 0 /\ (next < size) = TRUE /\ (next = size) = FALSE
      BY <1>1, <1>2, <1>3
    <3>2. QED
      BY <1>1, <3>1, Zenon
  <2>2. F \subseteq {TRUE}
    BY <2>1 DEF Flags
  <2>3. Cardinality(F) <= 1 /\ (F = {} \/ F = {TRUE})
    BY <2>2, OneFlag
  <2>4. HasMore(op, resp, next)
    <3>1. CASE F = {}
      BY <1>1, <1>2, <1>3, <2>1, <3>1 DEF HasMore
    <3>2. CASE F = {TRUE}
      BY <3>2 DEF HasMore
    <3>3. QED
      BY <2>3, <3>1, <3>2
  <2>5. F # {FALSE} /\ next <= size /\ ~(resp.rows = 0)
    <3>1. F # {FALSE}
      BY <2>3
    <3>2. resp.rows # 0
      BY <1>1, <2>1
    <3>3. QED
      BY <1>1, <3>1, <3>2
  <2>6. QED
    BY <1>1, <1>3, <2>3, <2>4, <2>5 DEF ParsePage
<1>4. CASE ~(next < size)
  <2>1. /\ resp.more \in {Absent, FALSE} /\ resp.finish \in {Absent, TRUE}
        /\ next >= size /\ next <= size
    <3>1. next >= size /\ next <= size /\ (next < size) = FALSE /\ (next = size) = TRUE
      BY <1>1, <1>2, <1>4
    <3>2. QED
      BY <1>1, <3>1, Zenon
  <2>2. F \subseteq {FALSE}
    BY <2>1 DEF Flags
  <2>3. Cardinality(F) <= 1 /\ (F = {} \/ F = {FALSE})
    BY <2>2, OneFlag
  <2>4. CASE ~HasMore(op, resp, next)
    <3>1. F # {TRUE}
      BY <2>3
    <3>2. next = size
      BY <1>1, <2>1
    <3>3. ParsePage(op, offset, resp) = [accepted |-> TRUE, next |-> Absent]
      BY <1>1, <2>1, <2>3, <2>4, <3>1, <3>2 DEF ParsePage
    <3>4. QED
      BY <1>1, <3>2, <3>3
  <2>5. CASE HasMore(op, resp, next)
    <3>1. F = {}
      BY <2>3, <2>5 DEF HasMore
    <3>2. resp.total = Absent /\ resp.rows > 0
      BY <1>1, <1>4, <2>5, <3>1 DEF HasMore
    <3>3. F # {TRUE} /\ F # {FALSE}
      BY <3>1
    <3>4. QED
      BY <1>1, <2>3, <2>5, <3>1, <3>2, <3>3 DEF ParsePage
  <2>6. QED
    BY <2>4, <2>5
<1>5. QED
  BY <1>3, <1>4

\* An accepted answer of any server leads on only with rows, a page at most.
LEMMA PageAfter ==
    ASSUME NEW op, NEW offset \in Nat, NEW resp \in Response,
           ParsePage(op, offset, resp).accepted
    PROVE  LET next == offset + resp.rows
           IN  /\ resp.rows \in Nat /\ resp.rows <= Limit
               /\ ParsePage(op, offset, resp).next # Absent =>
                     ParsePage(op, offset, resp).next = next /\ resp.rows > 0
<1> DEFINE next == offset + resp.rows
           page == ParsePage(op, offset, resp)
<1>1. resp.rows \in Nat
  BY PagesAssumption DEF Response
<1>2. page # Refused
  BY DEF Refused
<1>3. /\ page = [accepted |-> TRUE, next |-> IF HasMore(op, resp, next) THEN next ELSE Absent]
      /\ resp.rows <= Limit /\ (resp.rows = 0 => ~HasMore(op, resp, next))
  BY <1>2 DEF ParsePage
<1>4. QED
  BY <1>1, <1>3

\* Between one row and a page more for a turn more.
LEMMA OneTurnMore ==
    ASSUME NEW o \in Nat, NEW t \in Nat, NEW l \in Nat, NEW k \in 1 .. l,
           t <= o, o <= t * l
    PROVE  t + 1 <= o + k /\ o + k <= (t + 1) * l
<1>1. (t + 1) * l = t * l + l /\ t * l \in Nat
  OBVIOUS
<1> DEFINE m == t * l
<1>2. m \in Nat /\ o <= m /\ (t + 1) * l = m + l
  BY <1>1
<1> HIDE DEF m
<1>3. QED
  BY <1>2

-----------------------------------------------------------------------------
\* Pages: the walk of a host

\* A host that has asked for nothing is at the beginning of its list.
LEMMA WalkInitial == PagesInit => WalkInv
<1> SUFFICES ASSUME PagesInit PROVE WalkInv
  OBVIOUS
<1>1. /\ walk.op \in Operations /\ walk.honest \in BOOLEAN /\ walk.size \in 0 .. MaxTotal
      /\ walk.offset = 0 /\ walk.turns = 0 /\ walk.pc = "idle" /\ walk.seen = <<>>
  BY DEF PagesInit
<1>2. RowsTo(0) = <<>> /\ 0 * Limit = 0
  BY PagesAssumption DEF RowsTo
<1>3. walk.size \in Nat
  BY <1>1, PagesAssumption
<1>4. QED
  BY <1>1, <1>2, <1>3 DEF WalkInv, WalkTypes

\* An accepted answer of any server.
LEMMA PageReadKeeps ==
    ASSUME NEW resp \in Response, PageRead(resp), WalkInv
    PROVE  WalkInv'
<1> DEFINE page == ParsePage(walk.op, walk.offset, resp)
           next == walk.offset + resp.rows
<1>1. walk.pc = "request" /\ WalkTypes /\ (walk.honest => resp \in Honest(walk.op, walk.size, walk.offset))
  BY DEF PageRead, WalkInv
<1>2. CASE ~page.accepted
  <2>1. walk' = [walk EXCEPT !.pc = "failed"]
    BY <1>2 DEF PageRead
  <2>2. ~walk.honest
    BY <1>1, <1>2, HonestAccepted DEF WalkInv, WalkTypes
  <2>3. QED
    BY <2>1, <2>2 DEF WalkInv, WalkTypes
<1>3. CASE page.accepted
  <2>1. /\ resp.rows \in Nat /\ resp.rows <= Limit
        /\ page.next # Absent => page.next = next /\ resp.rows > 0
    BY <1>1, <1>3, PageAfter DEF WalkTypes
  <2> DEFINE over == page.next = Absent
             rows == [i \in 1 .. resp.rows |-> walk.offset + i - 1]
  <2>2. walk' = [walk EXCEPT
                    !.seen = walk.seen \o rows,
                    !.offset = IF over THEN walk.offset ELSE page.next,
                    !.turns = IF over THEN walk.turns ELSE walk.turns + 1,
                    !.pc = IF over THEN "done" ELSE "idle"]
    BY <1>3 DEF PageRead
  <2>3. walk'.offset = (IF over THEN walk.offset ELSE next) /\ walk'.seen = walk.seen \o rows
        /\ walk'.turns = (IF over THEN walk.turns ELSE walk.turns + 1)
        /\ walk'.pc = (IF over THEN "done" ELSE "idle")
        /\ walk'.op = walk.op /\ walk'.honest = walk.honest /\ walk'.size = walk.size
    BY <2>1, <2>2
  <2>4. walk'.turns <= walk'.offset /\ walk'.offset <= walk'.turns * Limit
        /\ walk'.offset \in Nat /\ walk'.turns \in Nat
    <3>1. CASE over
      BY <1>1, <2>3, <3>1 DEF WalkInv, WalkTypes
    <3>2. CASE ~over
      <4>1. resp.rows \in 1 .. Limit /\ Limit \in Nat
        BY <2>1, <3>2, PagesAssumption
      <4>2. walk.turns + 1 <= next /\ next <= (walk.turns + 1) * Limit /\ next \in Nat
            /\ walk.turns + 1 \in Nat
        BY <1>1, <4>1, OneTurnMore DEF WalkInv, WalkTypes
      <4>3. QED
        BY <2>3, <3>2, <4>2
    <3>3. QED
      BY <3>1, <3>2
  <2>5. ASSUME walk.honest
        PROVE  /\ walk'.pc # "failed" /\ walk'.offset <= walk'.size
               /\ walk'.seen = RowsTo(IF walk'.pc = "done" THEN walk'.size ELSE walk'.offset)
    <3>1. /\ next <= walk.size
          /\ over => next = walk.size
      <4>1. /\ next <= walk.size
            /\ page.next = next \/ (page.next = Absent /\ next = walk.size)
        BY <1>1, <2>5, HonestAccepted DEF WalkInv, WalkTypes
      <4>2. next # Absent
        BY <1>1, <2>1, PagesAssumption DEF WalkTypes
      <4>3. QED
        BY <4>1, <4>2
    <3>2. walk.seen = RowsTo(walk.offset) /\ walk.offset <= walk.size
      BY <1>1, <2>5 DEF WalkInv
    <3>3. walk'.seen = RowsTo(next)
      BY <1>1, <2>1, <2>3, <3>2, RowsOnePage DEF WalkTypes
    <3>4. QED
      BY <2>3, <3>1, <3>2, <3>3
  <2>6. QED
    BY <1>1, <2>3, <2>4, <2>5 DEF WalkInv, WalkTypes
<1>4. QED
  BY <1>2, <1>3

\* Every step keeps what the host has seen in line with its offset.
LEMMA WalkKept == WalkInv /\ [PagesNext]_pages => WalkInv'
<1> SUFFICES ASSUME WalkInv, [PagesNext]_pages
             PROVE  WalkInv'
  OBVIOUS
<1>1. CASE ReadPage
  BY <1>1 DEF ReadPage, WalkInv, WalkTypes
<1>2. ASSUME NEW resp \in Response, PageRead(resp) PROVE WalkInv'
  BY <1>2, PageReadKeeps
<1>3. CASE PageFails
  BY <1>3 DEF PageFails, WalkInv, WalkTypes
<1>4. CASE UNCHANGED walk
  BY <1>4 DEF WalkInv, WalkTypes
<1>5. QED
  BY <1>1, <1>2, <1>3, <1>4
  DEF PagesNext, WalkNext, PagerNext, NextPage, PageFetched, FetchLost, pages

\* A walk over a list whose server tells the truth is not refused and ends when
\* every row was seen once, in order, for lists and pages of any length; and no
\* server keeps a host on one offset.
THEOREM WalkCompleteHolds == PagesSpec => []WalkComplete
<1>1. WalkInv => WalkComplete
  <2> SUFFICES ASSUME WalkInv PROVE WalkComplete
    OBVIOUS
  <2>1. walk.turns * Limit \in Int /\ walk.offset \in walk.turns .. walk.turns * Limit
    <3>1. walk.turns * Limit \in Int
      BY PagesAssumption DEF WalkInv, WalkTypes
    <3>2. QED
      BY <3>1 DEF WalkInv, WalkTypes
  <2>2. QED
    BY <2>1 DEF WalkInv, WalkComplete, RowsTo
<1>2. QED
  BY <1>1, WalkInitial, WalkKept, PTL DEF PagesSpec

-----------------------------------------------------------------------------
\* Pages: the pager

\* A new Pager has the parameters of the first page.
LEMMA PagerInitial == PagesInit => PagerInv
<1> SUFFICES ASSUME PagesInit PROVE PagerInv
  OBVIOUS
<1>1. pager.params = 1 /\ pager.limit \in PageLimits /\ pager.yielded = 0 /\ pager.pc = "idle"
  BY DEF PagesInit
<1>2. answers = <<>> /\ Len(answers) = 0 /\ answers \in Seq(Nat) /\ pager.limit \in Nat \cup {Absent}
  <2>1. answers = <<>> /\ pager.limit \in PageLimits
    BY <1>1 DEF PagesInit
  <2>2. pager.limit \in Nat \cup {Absent}
    BY <2>1, PagesAssumption
  <2>3. Len(answers) = 0 /\ answers \in Seq(Nat)
    BY <2>1
  <2>4. QED
    BY <2>1, <2>2, <2>3
<1>3. QED
  BY <1>1, <1>2 DEF PagerInv

\* A page that arrives is the next one, and the limit ends the walk after it.
LEMMA FetchedKeeps ==
    ASSUME NEW more \in BOOLEAN, PageFetched(more), PagerInv
    PROVE  PagerInv'
<1> DEFINE n == Len(answers)
<1>1. /\ pager.pc = "fetching" /\ n \in Nat /\ pager.fetched = n + 1 /\ pager.yielded = n
      /\ pager.limit \in Nat \cup {Absent} /\ (pager.limit # Absent => n < pager.limit)
  BY DEF PageFetched, PagerInv
<1>2. /\ pager'.limit = pager.limit /\ pager'.pc = "idle" /\ pager'.yielded = n + 1
      /\ pager'.params = IF AtLimit(n + 1) THEN NoParams ELSE NextParams(n + 1, more)
      /\ answers' = Append(answers, n + 1)
  BY <1>1 DEF PageFetched, PagerInv
<1>3. /\ answers' \in Seq(Nat) /\ Len(answers') = n + 1
      /\ \A i \in DOMAIN answers' : answers'[i] = i
  BY <1>1, <1>2 DEF PagerInv
<1>4. pager'.params # NoParams => pager'.params = n + 2 /\ ~AtLimit(n + 1)
  BY <1>1, <1>2 DEF NextParams
<1>5. ~AtLimit(n + 1) /\ pager.limit # Absent => n + 1 < pager.limit
  BY <1>1 DEF AtLimit
<1>6. QED
  BY <1>1, <1>2, <1>3, <1>4, <1>5 DEF PagerInv

\* Every step keeps the parameters those of the page after the last.
LEMMA PagerKept == PagerInv /\ [PagesNext]_pages => PagerInv'
<1> SUFFICES ASSUME PagerInv, [PagesNext]_pages
             PROVE  PagerInv'
  OBVIOUS
<1>1. CASE NextPage
  BY <1>1 DEF NextPage, PagerInv
<1>2. ASSUME NEW more \in BOOLEAN, PageFetched(more) PROVE PagerInv'
  BY <1>2, FetchedKeeps
<1>3. CASE FetchLost
  BY <1>3 DEF FetchLost, PagerInv
<1>4. CASE UNCHANGED <<pager, answers>>
  BY <1>4 DEF PagerInv
<1>5. QED
  BY <1>1, <1>2, <1>3, <1>4
  DEF PagesNext, WalkNext, PagerNext, ReadPage, PageRead, PageFails, pages

\* A Pager hands out the pages one after the other, none twice and none left
\* out, and never more than its limit, for any limit and any page number.
THEOREM PagerConsecutiveHolds == PagesSpec => []PagerConsecutive
<1>1. PagerInv => PagerConsecutive
  BY DEF PagerInv, PagerConsecutive
<1>2. QED
  BY <1>1, PagerInitial, PagerKept, PTL DEF PagesSpec
=============================================================================
