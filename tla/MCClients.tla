------------------------------- MODULE MCClients -------------------------------
(***************************************************************************)
(* Checks the modules of the parts above the transport in one run.  A      *)
(* behaviour is one of one part, which "part" names: the parts share       *)
(* nothing, so that their state spaces add up and do not multiply.         *)
(***************************************************************************)
EXTENDS QrLogin, MobileLogin, Upload, Pages, OAuth, Endpoints, Media, MqttPackets, Qmc, Lyrics

VARIABLE part

Parts == {"qr", "mobile", "upload", "pages", "oauth", "endpoints", "media", "packets", "qmc", "lyrics"}

-----------------------------------------------------------------------------
\* Values of the constants.
MCMessages ==
    [type : Types \ {"loginFailed"}, qos : {0}, id : Ids]
        \cup [type : {"scanned"}, qos : {1, 2}, id : Ids]
MCLists == {<<"a">>, <<"a", "b">>}
MCBodies == {<<>>, <<2>>, <<1, 3>>, <<3, 3, 0>>, <<2, 2, 0, 0>>}
MCKeys == {<<3, 1>>, <<2, 5, 1>>}
MCRows ==
    LET At(t) == [kind |-> "time", ms |-> t]
        Off == [kind |-> "offset", ms |-> 500]
    IN  [tags : {<<>>, <<At(1000)>>, <<At(2500), At(1000)>>, <<At(0)>>, <<Off>>, <<Off, At(2500)>>},
         text : {"none", "a"}]

-----------------------------------------------------------------------------
\* The parts that do not run keep one of their initial states.
QrRests == setup = [kind |-> "Qq", repeat |-> FALSE]
UploadRests ==
    job = [u \in Uploads |->
              [files |-> <<"a">>, whole |-> TRUE, pc |-> "new", plan |-> NoPlan, next |-> 1]]
PagesRest ==
    /\ walk = [op |-> "songs", honest |-> TRUE, size |-> 0, offset |-> 0, turns |-> 0,
               pc |-> "idle", seen |-> <<>>]
    /\ pager = [params |-> 1, limit |-> Absent, yielded |-> 0, pc |-> "idle", fetched |-> 0,
                ended |-> FALSE]
EndpointsRest == current = CHOOSE a \in Accounts : TRUE
QmcRests == qmcKey = <<3, 1>> /\ skips = [i \in 0 .. MaxAudio |-> 0]

Init ==
    /\ part \in Parts
    /\ part # "qr" => QrRests
    /\ QrInit
    /\ MobileInit
    /\ part # "upload" => UploadRests
    /\ UploadInit
    /\ part # "pages" => PagesRest
    /\ PagesInit
    /\ OAuthInit
    /\ part # "endpoints" => EndpointsRest
    /\ EndpointInit
    /\ MediaInit
    /\ PacketsInit
    /\ part # "qmc" => QmcRests
    /\ QmcInit
    /\ LyricsInit

QrPart == part = "qr" /\ QrNext
    /\ UNCHANGED <<part, mobileLogin, upload, pages, oauth, endpointCall, media, packets, qmc, lrc>>
MobilePart == part = "mobile" /\ MobileNext
    /\ UNCHANGED <<part, qrLogin, upload, pages, oauth, endpointCall, media, packets, qmc, lrc>>
UploadPart == part = "upload" /\ UploadNext
    /\ UNCHANGED <<part, qrLogin, mobileLogin, pages, oauth, endpointCall, media, packets, qmc, lrc>>
PagesPart == part = "pages" /\ PagesNext
    /\ UNCHANGED <<part, qrLogin, mobileLogin, upload, oauth, endpointCall, media, packets, qmc, lrc>>
OAuthPart == part = "oauth" /\ OAuthNext
    /\ UNCHANGED <<part, qrLogin, mobileLogin, upload, pages, endpointCall, media, packets, qmc, lrc>>
EndpointsPart == part = "endpoints" /\ EndpointNext
    /\ UNCHANGED <<part, qrLogin, mobileLogin, upload, pages, oauth, media, packets, qmc, lrc>>
MediaPart == part = "media" /\ MediaNext
    /\ UNCHANGED <<part, qrLogin, mobileLogin, upload, pages, oauth, endpointCall, packets, qmc, lrc>>
PacketsPart == part = "packets" /\ PacketsNext
    /\ UNCHANGED <<part, qrLogin, mobileLogin, upload, pages, oauth, endpointCall, media, qmc, lrc>>
QmcPart == part = "qmc" /\ QmcNext
    /\ UNCHANGED <<part, qrLogin, mobileLogin, upload, pages, oauth, endpointCall, media, packets, lrc>>
LyricsPart == part = "lyrics" /\ LyricsNext
    /\ UNCHANGED <<part, qrLogin, mobileLogin, upload, pages, oauth, endpointCall, media, packets, qmc>>

Next ==
    \/ QrPart \/ MobilePart \/ UploadPart \/ PagesPart \/ OAuthPart
    \/ EndpointsPart \/ MediaPart \/ PacketsPart \/ QmcPart \/ LyricsPart

clients ==
    <<part, qrLogin, mobileLogin, upload, pages, oauth, endpointCall, media, packets, qmc, lrc>>

Spec == Init /\ [][Next]_clients
=============================================================================
