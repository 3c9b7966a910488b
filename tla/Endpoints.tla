------------------------------ MODULE Endpoints ------------------------------
(***************************************************************************)
(* The methods of the API modules (src/modules/*.rs) and of src/account.rs *)
(* as calls of one process next to others that switch the account of the   *)
(* client: which credential a method puts into its parameters and which    *)
(* one its request carries, whether it needs a login, whether the          *)
(* transport may send it again, how many requests it takes and what it     *)
(* says of the answer.  Parameters and response models are left out.       *)
(***************************************************************************)
EXTENDS Naturals

CONSTANTS
    Accounts,    \* signed-in credentials
    Guest,       \* Credential::default()
    Placeholder, \* placeholder_credential()
    NoArgument,  \* credential: None
    NoAccount,   \* no identity in the parameters, no token
    NoEndpoint,  \* no call is running
    Resends      \* retry_max of the transport

ASSUME EndpointsAssumption ==
    /\ Resends \in Nat
    /\ {Guest, Placeholder, NoArgument, NoAccount} \cap Accounts = {}

VARIABLES
    endpoint,  \* the running method
    argument,  \* its credential argument
    current,   \* the credential of the client
    naming,    \* the account in its parameters
    carrier,   \* the credential of its request
    token,     \* the account a token of its first request belongs to
    callPc,    \* where the call is
    resent,    \* requests sent again by the transport
    applied,   \* server: how often it carried the call out, in part at least
    reply,     \* history: what the last answer said of it
    verdict    \* what the caller was told

endpointCall == <<endpoint, argument, current, naming, carrier, token, callPc, resent, applied,
                  reply, verdict>>

-----------------------------------------------------------------------------
\* The methods, by module and by the way they use credentials.

AlbumReads == {"album.get_detail", "album.get_song", "album.get_new_album"}
AlbumWrites == {"album.fav_album", "album.del_fav_album"}

SongComments == {"comment.get_song_comments"}
CommentReads ==
    {"comment.get_comment_count", "comment.get_hot_comments", "comment.get_new_comments",
     "comment.get_recommend_comments", "comment.get_moment_comments"}
CommentAdds == {"comment.add_comment"}
CommentDeletes == {"comment.delete_comment"}
RawCommentReads == {"comment.raw_get_reply_comments"}
RawCommentWrites == {"comment.raw_update_hot_comment"}

\* anonymous_web_read: the credential is an empty one on purpose.
DiscoveryReads ==
    {"discovery.categories", "discovery.podcasts", "discovery.new_mvs",
     "discovery.featured", "discovery.area"}

HelperWrites == {"helper.init_upload", "helper.finish_upload"}
HelperReads == {"helper.raw_query_update"}

\* Those that take one snapshot of the credential and use it for everything,
\* and those for people who are not signed in yet.
ExpiryChecks == {"login.check_expired"}
CredentialRefreshes == {"login.refresh_credential"}
Logouts == {"login.logout"}
PhoneCodes == {"login.send_authcode"}
PhoneLogins == {"login.phone_authorize"}

LyricReads ==
    {"lyric.get_lyric", "lyric.get_lyric_with_crypt", "lyric.get_singing_annotations_info",
     "lyric.get_multi_style_trans_lyric", "lyric.is_ai_dict_exists", "lyric.get_ai_dict"}

MvReads == {"mv.get_detail", "mv.get_mv_urls", "mv.get_mv_list"}

SessionReads == {"private_message.get_sessions"}
SessionDeletes == {"private_message.delete_session"}
MessageLists == {"private_message.get_messages"}
MessageWrites ==
    {"private_message.send_message", "private_message.delete_message",
     "private_message.clear_session", "private_message.set_config"}
MessageCards == {"private_message.get_config", "private_message.get_musician_message_card"}
CardReports == {"private_message.report_card_message_action"}
ChatReads == {"private_message.get_chat_entries", "private_message.get_media_message_details"}
MessagesRead == {"private_message.mark_all_messages_read"}
SafetyReads == {"private_message.get_safety_hint", "private_message.raw_get_friendship_badge"}

PrivateReads == SessionReads \cup MessageLists \cup MessageCards \cup ChatReads \cup SafetyReads
PrivateWrites == SessionDeletes \cup MessageWrites \cup CardReports \cup MessagesRead

WebFeed == {"recommend.get_web_home_feed"}
WebRecommendations == {"recommend.get_web_songlists", "recommend.get_web_newsongs"}
HomeFeed == {"recommend.get_home_feed"}
GuessRecommendations ==
    {"recommend.get_guess_recommend", "recommend.get_guess_recommend_with_request"}
DailyRecommendation == {"recommend.get_daily_recommendation"}
RadarRecommendation == {"recommend.get_radar_recommend"}
OwnRadar == {"recommend.get_radar_recommend_with_request"}
NewRecommendations ==
    {"recommend.get_recommend_songlist", "recommend.get_recommend_newsong"}

HotKeys == {"search.get_hotkey", "search.complete"}
SearchReads ==
    {"search.general_search", "search.search_by_type", "search.search_songlists",
     "search.search_songs"}
QuickSearch == {"search.quick_search"}

SingerReads ==
    {"singer.get_singer_list", "singer.get_singer_list_index", "singer.get_info",
     "singer.get_tab_detail", "singer.get_desc", "singer.get_similar"}
SingerLists == {"singer.get_songs_list", "singer.get_album_list", "singer.get_mv_list"}

SongLookups == {"song.query_song", "song.get_cdn_dispatch"}
SongUrls == {"song.get_song_urls"}
SongRelations ==
    {"song.get_detail", "song.get_similar_song", "song.get_labels", "song.get_related_songlist",
     "song.get_related_mv", "song.get_other_version", "song.get_producer"}
SongSheets == {"song.get_sheet", "song.has_sheet", "song.get_fav_num"}
SongFans == {"song.raw_is_song_fan_by_mid", "song.raw_get_fav_songlist"}
SongVkey == {"song.raw_get_url_vkey"}

SonglistDetail == {"songlist.get_detail"}
SonglistDirectories == {"songlist.create", "songlist.delete"}
SonglistEdits ==
    {"songlist.add_songs", "songlist.del_songs", "songlist.like_song", "songlist.unlike_song"}
RawSonglistReads ==
    {"songlist.raw_get_uniform_song_detail", "songlist.raw_get_song_detail_info_list_by_dirid"}
SonglistFans == {"songlist.raw_is_playlist_fan"}
SonglistOrder == {"songlist.raw_seq_songlist"}
SonglistAudio == {"songlist.raw_cancel_fav_audio"}

TopWebReads == {"top.get_web_detail"}
TopReads == {"top.get_category", "top.get_detail"}

UserProfile == {"user.get_current_profile"}
UserHomepage == {"user.get_homepage"}
UserRelations ==
    {"user.get_vip_info", "user.is_vip", "user.get_follow_singers", "user.get_fans",
     "user.get_friend", "user.get_follow_user"}
UserCollections ==
    {"user.get_created_songlist", "user.get_fav_song", "user.get_fav_songlist"}
UserFavourites == {"user.fav_songlist", "user.unfav_songlist"}
FavouriteAlbums == {"user.get_fav_album"}
FavouriteMvs == {"user.get_fav_mv"}
MusicGene == {"user.get_music_gene"}
DislikeLists == {"user.get_dislike_list"}
UserDislikes == {"user.add_dislike", "user.cancel_dislike"}
ClearDislikes == {"user.cancel_all_dislike_song"}
UserInfos == {"user.raw_get_user_vip_info", "user.raw_get_user_base_info"}
UserFollows == {"user.focus_singer"}
UserMvs == {"user.fav_mv"}
FavorLists == {"user.raw_get_favor_list"}
UserAlbums == {"user.raw_get_collect_album_list"}

AccountPages == {"account.read_page"}
AccountWrites == {"account.write_checked"}

-----------------------------------------------------------------------------
\* Without any credential parameter: what the client has when it is asked.
Ambient ==
    AlbumReads \cup CommentReads \cup HelperReads \cup LyricReads \cup MvReads \cup HomeFeed \cup
    RadarRecommendation \cup NewRecommendations \cup HotKeys \cup
    SearchReads \cup SingerReads \cup SingerLists \cup SongLookups \cup
    SongRelations \cup SongSheets \cup SongVkey \cup SonglistDetail \cup TopReads

\* With a parameter credential: Option<&Credential>.
LoginReads ==
    PrivateReads \cup SongFans \cup SonglistFans \cup UserRelations \cup FavouriteMvs \cup
    DislikeLists \cup UserInfos \cup FavorLists

OpenReads ==
    RawCommentReads \cup GuessRecommendations \cup OwnRadar \cup SongUrls \cup RawSonglistReads \cup
    UserCollections \cup FavouriteAlbums \cup MusicGene \cup UserAlbums \cup ExpiryChecks

\* The writes that say whether they were carried out, and those that hand
\* the answer over.
TellingWrites ==
    CommentDeletes \cup SonglistEdits \cup SonglistOrder \cup UserFavourites \cup UserDislikes \cup
    ClearDislikes \cup UserFollows \cup AccountWrites

\* Those that name several songs, of which the server may refuse some.
SeveralItems == SonglistEdits \cup UserDislikes \cup AccountWrites

OpenWrites == CredentialRefreshes \cup PhoneCodes \cup PhoneLogins

SilentWrites ==
    OpenWrites \cup Logouts \cup AlbumWrites \cup CommentAdds \cup RawCommentWrites \cup
    HelperWrites \cup PrivateWrites \cup SonglistDirectories \cup SonglistAudio \cup UserMvs

Writes == TellingWrites \cup SilentWrites

\* With an explicit credential, or with an empty one.
Given == WebFeed \cup DailyRecommendation \cup UserProfile \cup AccountPages \cup AccountWrites
Anonymous == SongComments \cup DiscoveryReads \cup WebRecommendations \cup TopWebReads \cup QuickSearch

EndpointNames ==
    Ambient \cup LoginReads \cup OpenReads \cup Writes \cup Given \cup Anonymous \cup UserHomepage

\* Those whose parameters name the account, taken from the client when the
\* caller gives none.
Naming == SongUrls \cup SongVkey \cup UserFavourites \cup Given

\* Those that take a snapshot of the account first and send their request for
\* it.
Snapshots == UserHomepage \cup ExpiryChecks \cup CredentialRefreshes \cup Logouts

NeedsLogin(e) == e \in (LoginReads \cup Writes \cup Given) \ OpenWrites

\* Mutant of MayResend: writes are sent again like reads.
ResendsAll(e) == TRUE

\* RetryClass: a write is never sent again.
MayResend(e) == e \notin Writes

Arguments(e) ==
    CASE e \in Ambient \cup Anonymous \cup PhoneCodes \cup PhoneLogins -> {NoArgument}
      [] e \in Given -> Accounts
      [] OTHER       -> Accounts \cup {NoArgument}

\* The argument, or the client's credential at this moment.
OrCurrent(a) == IF a = NoArgument THEN current ELSE a

\* Mutant of Captured: the options of a second request leave the argument out.
CapturedAgain(e) == IF callPc = "second" THEN current ELSE OrCurrent(argument)

\* The credential a request of the method captures (request_cgi takes the
\* snapshot when it begins; resolve_placeholder_credential has taken its own).
Captured(e) ==
    CASE e \in Anonymous -> Guest
      [] e \in Snapshots -> naming
      [] OTHER           -> OrCurrent(argument)

EndpointInit ==
    /\ endpoint = NoEndpoint /\ argument = NoArgument
    /\ current \in Accounts
    /\ naming = NoAccount /\ carrier = NoAccount /\ token = NoAccount
    /\ callPc = "idle"
    /\ resent = 0 /\ applied = 0 /\ reply = "none" /\ verdict = "none"

Homepage == IF OrCurrent(argument') = Guest THEN Placeholder ELSE OrCurrent(argument')

\* The method builds its parameters.
BeginCall(e, a) ==
    /\ callPc = "idle"
    /\ a \in Arguments(e)
    /\ endpoint' = e /\ argument' = a
    /\ naming' = CASE e \in UserHomepage           -> Homepage
                   [] e \in Naming \cup Snapshots -> OrCurrent(a)
                   [] OTHER                        -> NoAccount
    /\ callPc' = "first"
    /\ UNCHANGED <<current, carrier, token, resent, applied, reply, verdict>>

Told(v) == callPc' = "over" /\ verdict' = v

\* request_cgi captures the credential and checks the login.
CaptureCredential ==
    /\ callPc \in {"first", "second"}
    /\ carrier' = Captured(endpoint)
    /\ IF NeedsLogin(endpoint) /\ carrier' = Guest
       THEN Told("error")
       ELSE callPc' = (IF callPc = "first" THEN "asking" ELSE "asking_second") /\ UNCHANGED verdict
    /\ resent' = 0
    /\ UNCHANGED <<endpoint, argument, current, naming, token, applied, reply>>

Asking == callPc \in {"asking", "asking_second"}

\* The first request of cancel_all_dislike_song only fetches a token.
FetchesToken == endpoint \in ClearDislikes /\ callPc = "asking"

\* The server takes a token only from the account it gave it to.
Entitled == endpoint \in ClearDislikes => token = carrier

\* Whether the server may carry this request out: a comment added, a list
\* created or a song sent twice is there twice.
CarriesOut == endpoint \in Writes /\ ~FetchesToken /\ Entitled

\* The answer does not arrive: a read is sent again, a write is an error.
AnswerLost(done) ==
    /\ Asking
    /\ done => CarriesOut
    /\ applied' = IF done THEN applied + 1 ELSE applied
    /\ IF MayResend(endpoint) /\ resent < Resends
       THEN resent' = resent + 1 /\ UNCHANGED <<callPc, verdict>>
       ELSE Told("error") /\ UNCHANGED resent
    /\ UNCHANGED <<endpoint, argument, current, naming, carrier, token, reply>>

\* An answer without a token makes an empty one.
GetToken ==
    /\ FetchesToken
    /\ token' = carrier \/ token' = token
    /\ callPc' = "second"
    /\ UNCHANGED <<endpoint, argument, current, naming, carrier, resent, applied, reply, verdict>>

\* The request fails with a business code, or its answer cannot be decoded.
AnswerFails ==
    /\ Asking
    /\ Told("error")
    /\ UNCHANGED <<endpoint, argument, current, naming, carrier, token, resent, applied, reply>>

\* The answer confirms a write, or brings what was read.  A logout of the
\* default account signs the client out, whoever it is by now.
AnswerArrives ==
    /\ Asking /\ ~FetchesToken
    /\ endpoint \in TellingWrites => CarriesOut
    /\ applied' = IF CarriesOut THEN applied + 1 ELSE applied
    /\ reply' = "confirms"
    /\ Told(IF endpoint \in TellingWrites THEN "done" ELSE "answer")
    /\ current' = IF endpoint \in Logouts /\ argument = NoArgument THEN Guest ELSE current
    /\ UNCHANGED <<endpoint, argument, naming, carrier, token, resent>>

\* The server refuses, with a result code or 80092, or names items that
\* failed; others of the same request may have been carried out then.
AnswerRefuses(some) ==
    /\ Asking /\ ~FetchesToken /\ endpoint \in TellingWrites
    /\ some => CarriesOut /\ endpoint \in SeveralItems
    /\ applied' = IF some THEN applied + 1 ELSE applied
    /\ reply' = IF some THEN "partly" ELSE "refuses"
    /\ Told("undone")
    /\ UNCHANGED <<endpoint, argument, current, naming, carrier, token, resent>>

\* What an answer without the fields that confirm it is told as: write_checked
\* has Unknown for it, the others say false as for a refusal (unwrap_or(-1)).
Unconfirmed(e) == IF e \in AccountWrites THEN "unknown" ELSE "undone"

AnswerIsVague(done) ==
    /\ Asking /\ ~FetchesToken /\ endpoint \in TellingWrites
    /\ done => CarriesOut
    /\ applied' = IF done THEN applied + 1 ELSE applied
    /\ reply' = "vague"
    /\ Told(Unconfirmed(endpoint))
    /\ UNCHANGED <<endpoint, argument, current, naming, carrier, token, resent>>

\* Another task signs in, switches or signs out.
SwitchCurrent(c) ==
    /\ callPc # "over" /\ current # c
    /\ current' = c
    /\ UNCHANGED <<endpoint, argument, naming, carrier, token, callPc, resent, applied, reply, verdict>>

EndpointNext ==
    \/ \E e \in EndpointNames, a \in Accounts \cup {NoArgument} : BeginCall(e, a)
    \/ CaptureCredential \/ GetToken
    \/ AnswerArrives \/ AnswerFails
    \/ \E done \in BOOLEAN : AnswerLost(done) \/ AnswerRefuses(done) \/ AnswerIsVague(done)
    \/ \E c \in Accounts \cup {Guest} : SwitchCurrent(c)

EndpointSpec == EndpointInit /\ [][EndpointNext]_endpointCall

-----------------------------------------------------------------------------
\* A call with an explicit credential is that account's in all its requests,
\* parameters and tokens, and an anonymous call is nobody's, whatever other
\* tasks do to the credential of the client meanwhile.
ExplicitIsWhole ==
    /\ argument # NoArgument => {naming, carrier, token} \subseteq {argument, NoAccount}
    /\ endpoint \in Anonymous => {naming, carrier} \subseteq {Guest, NoAccount}

\* No write is carried out twice by one call, although answers get lost, and
\* what its caller is told is the fate of that one request and not of a
\* replay: done is done, and undone is told of a write that was carried out
\* only if the server refused a part of it or, by the methods that return a
\* bool, if its answer did not say.  That last doubt is what write_checked
\* tells as Unknown, which "hosts must reconcile with a safe read"
\* (WriteOutcome).
AnswerMeansEffect ==
    /\ applied <= 1
    /\ verdict = "done" => applied = 1
    /\ verdict = "undone" /\ applied = 1 =>
         reply = "partly" \/ (reply = "vague" /\ endpoint \notin AccountWrites)

\* The account in the parameters is the one the request is sent for: the
\* default account is captured once, when the call begins ("CGI 调用方若需要
\* 默认账号, 必须在请求入口先快照全局凭证再显式传入", context.rs:504).
OneIdentity ==
    Asking /\ naming # NoAccount => naming = carrier
=============================================================================
