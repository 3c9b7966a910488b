-------------------------------- MODULE Media --------------------------------
(***************************************************************************)
(* Playable sources and downloads: MediaSource::best and resolve,          *)
(* download_quality, download_best and best_playable of src/media.rs,      *)
(* resolve_files of src/playback.rs.  Qualities are numbered by priority,  *)
(* the least is the best.  A server says of each what it likes.            *)
(***************************************************************************)
EXTENDS Naturals, Sequences, FiniteSets, FiniteSetsExt, SequencesExt

CONSTANTS
    Qualities, \* SongQuality::ALL, by their priority
    Encrypted, \* those with an encrypted file type (has_encrypted)
    NoQuality, \* nothing was delivered
    FileNames, \* files of one resolve_files
    MaxFileRows    \* bound: rows of its answer

ASSUME MediaAssumption ==
    /\ Qualities \subseteq Nat /\ IsFiniteSet(Qualities)
    /\ Encrypted \subseteq Qualities /\ NoQuality \notin Qualities /\ MaxFileRows \in Nat

VARIABLES
    fetchPc,   \* "idle", "resolve", "bytes" or "over"
    mediaCall, \* the operation and allow_encrypted
    left,      \* qualities still to be tried, the best is being tried
    tried,     \* history: what was asked for, and what the server said
    got,       \* the quality delivered
    told,      \* the error category the caller gets
    sources    \* what resolve_files answered

media == <<fetchPc, mediaCall, left, tried, got, told, sources>>

\* best and resolve make one request, the other two go down the list.
MediaCalls == {"best", "resolve", "best_playable", "download_quality", "download_best"}

\* The row of an answer: a source; no right to it (104003), rate limited
\* (2001), not signed in (1000), unavailable for another reason; no address
\* although the result is 0, an encrypted source without its key; no row, or an
\* address that is not one of a CDN of QQ Music.
Replies == {"ok", "no right", "too often", "signed out", "unavailable", "no address", "no key",
            "no row", "bad address"}

\* Errors of a request.
Failures == {"Permission", "RateLimit", "Auth", "Network"}

\* unplayable_error and classify_cgi_code.
CategoryOf(reply) ==
    CASE reply = "no right"    -> "Permission"
      [] reply = "too often"   -> "RateLimit"
      [] reply = "signed out"  -> "Auth"
      [] reply = "unavailable" -> "Other"
      [] reply \in {"no row", "bad address"} -> "Server"
      [] OTHER                 -> "BadRequest"

MediaTypeOK ==
    /\ fetchPc \in {"idle", "resolve", "bytes", "over"}
    /\ mediaCall \in [op : MediaCalls, encrypted : BOOLEAN, sizes : SUBSET Qualities]
    /\ left \subseteq Qualities
    /\ tried \in Seq([quality : Qualities, said : Replies \cup Failures])
    /\ got \in Qualities \cup {NoQuality}
    /\ told \in {"none", "dropped", "Server", "BadRequest", "Other"} \cup Failures
    /\ sources \subseteq FileNames

MediaInit ==
    /\ fetchPc = "idle" /\ mediaCall = [op |-> "best", encrypted |-> FALSE, sizes |-> {}]
    /\ left = {} /\ tried = <<>> /\ got = NoQuality /\ told = "none"
    /\ sources = {}

-----------------------------------------------------------------------------
\* available_qualities puts those with a size in the order of their priority.
Trying == Min(left)

\* file_type: encrypted only where the quality has such a type.
AsEncrypted(q) == mediaCall.encrypted /\ q \in Encrypted

\* A key is only missed where the source is encrypted.
PossibleReplies(q) == IF AsEncrypted(q) THEN Replies ELSE Replies \ {"no key"}

MediaOver(category) == fetchPc' = "over" /\ told' = category

\* A call for a song whose qualities in "sizes" are not empty; resolve and
\* download_quality are for one of them.
StartMedia(op, allow, sizes) ==
    /\ fetchPc = "idle"
    /\ op \in {"resolve", "download_quality"} => Cardinality(sizes) = 1
    /\ mediaCall' = [op |-> op,
                     encrypted |-> allow \/ op \in {"download_quality", "download_best"},
                     sizes |-> sizes]
    /\ left' = IF op = "best" /\ sizes # {} THEN {Min(sizes)} ELSE sizes
    /\ IF sizes = {} THEN MediaOver("Server") ELSE fetchPc' = "resolve" /\ UNCHANGED told
    /\ UNCHANGED <<tried, got, sources>>

Downloads == mediaCall.op \in {"download_quality", "download_best"}

\* Mutant of Degrades: any source that cannot be played is passed over.
DegradesAlways(category, resolved) ==
    mediaCall.op = "download_best" \/ (mediaCall.op = "best_playable" /\ resolved)

\* Which refusals lead to the next quality: best_playable degrades on the
\* source it resolved, not on an error of its request; download_best on any
\* error of that category.
Degrades(category, resolved) ==
    /\ category = "Permission"
    /\ \/ mediaCall.op = "download_best"
       \/ mediaCall.op = "best_playable" /\ resolved

\* The next quality, or the last error.
Refuse(category, resolved) ==
    /\ left' = left \ {Trying}
    /\ IF Degrades(category, resolved) /\ left' # {}
       THEN fetchPc' = "resolve" /\ UNCHANGED told
       ELSE MediaOver(category)
    /\ UNCHANGED <<mediaCall, got, sources>>

Deliver ==
    /\ got' = Trying
    /\ MediaOver("none")
    /\ UNCHANGED <<mediaCall, left, sources>>

Tried(what) == tried' = Append(tried, [quality |-> Trying, said |-> what])

\* resolve answers with a source: it is the answer of best and resolve as it
\* is, the others look whether it is playable.
Resolved(reply) ==
    /\ fetchPc = "resolve" /\ reply \in PossibleReplies(Trying)
    /\ Tried(reply)
    /\ IF reply \in {"no row", "bad address"} THEN Refuse("Server", FALSE)
       ELSE IF mediaCall.op \in {"best", "resolve"} THEN Deliver
       ELSE IF reply # "ok" THEN Refuse(CategoryOf(reply), TRUE)
       ELSE IF Downloads
       THEN fetchPc' = "bytes" /\ UNCHANGED <<mediaCall, left, got, told, sources>>
       ELSE Deliver

\* The request itself fails: rate limit, signed out, transport, or HTTP 403,
\* which is a permission error too.
ResolveFails(category) ==
    /\ fetchPc = "resolve"
    /\ Tried(category)
    /\ Refuse(category, FALSE)

Downloaded ==
    /\ fetchPc = "bytes"
    /\ Deliver
    /\ UNCHANGED tried

\* The file cannot be fetched, or cannot be decrypted with its key.
DownloadFails(category) ==
    /\ fetchPc = "bytes"
    /\ Tried(category)
    /\ Refuse(category, FALSE)

DropMedia ==
    /\ fetchPc \in {"resolve", "bytes"}
    /\ MediaOver("dropped")
    /\ UNCHANGED <<mediaCall, left, tried, got, sources>>

-----------------------------------------------------------------------------
\* sources_from_items: the files with a source, or an error; a row nobody
\* asked for, or a second row for a file, spoils the answer.
SourcesFromItems(names, rows, encrypted) ==
    IF \/ \E i \in DOMAIN rows : rows[i].name \notin names
       \/ \E i, j \in DOMAIN rows : i # j /\ rows[i].name = rows[j].name
       \/ \E i \in DOMAIN rows : rows[i].said = "bad address"
    THEN {"error"}
    ELSE {rows[i].name : i \in {j \in DOMAIN rows :
             rows[j].said = "ok" \/ (rows[j].said = "no key" /\ ~encrypted)}}

\* resolve_files asks for all files of one kind at once; the rows of the answer
\* come in any order.
ResolveFiles(names, rows, encrypted) ==
    LET found == SourcesFromItems(names, rows, encrypted) IN
    /\ fetchPc = "idle"
    /\ IF found = {"error"} THEN MediaOver("Server") ELSE MediaOver("none")
    /\ sources' = IF found = {"error"} THEN {} ELSE found
    /\ UNCHANGED <<mediaCall, left, tried, got>>

FileRows == [name : FileNames, said : {"ok", "no address", "no key", "bad address"}]

MediaNext ==
    \/ \E op \in MediaCalls, allow \in BOOLEAN, sizes \in SUBSET Qualities :
           StartMedia(op, allow, sizes)
    \/ \E reply \in Replies : Resolved(reply)
    \/ \E c \in Failures : ResolveFails(c) \/ DownloadFails(c)
    \/ Downloaded \/ DropMedia
    \/ \E names \in SUBSET FileNames \ {{}}, n \in 0 .. MaxFileRows, encrypted \in BOOLEAN :
           \E rows \in [1 .. n -> FileRows] : ResolveFiles(names, rows, encrypted)

MediaSpec == MediaInit /\ [][MediaNext]_media

-----------------------------------------------------------------------------
\* What is delivered is the best quality the server would give: every better
\* one was asked for, and refused for lack of rights; and after any other
\* failure no further quality is tried ("...立即返回, 不会连打下一档",
\* media.rs:246).
BestIsBest ==
    LET Refused(i) == tried[i].said \in {"no right", "Permission"} IN
    /\ \A i \in 1 .. Len(tried) - 1 :
          Refused(i) \/ (tried[i].said = "ok" /\ tried[i + 1].quality = tried[i].quality)
    /\ got # NoQuality =>
          /\ \A q \in mediaCall.sizes : q < got =>
                \E i \in DOMAIN tried : tried[i].quality = q /\ Refused(i)
          /\ mediaCall.op \notin {"best", "resolve"} =>
                Last(tried) = [quality |-> got, said |-> "ok"]
=============================================================================
