----------------------------- MODULE DaemonProofs -----------------------------
(***************************************************************************)
(* What holds of the client's two ways to the daemon: of DaemonAdapter,    *)
(* for every set of profiles and versions, whatever the user and           *)
(* installers do between two requests and whichever answers are lost; and  *)
(* of RecoveryMonitor, for every number of retries and every capacity of   *)
(* its channels.                                                           *)
(*                                                                         *)
(* 1. The adapter.  A call is a chain of requests, so the invariant says   *)
(* what is known at each of them: which requests an operation makes, that  *)
(* the version was looked at first, that a profile is only added after a   *)
(* list without one, and what each answer means while it has not been      *)
(* read.  "since" names what others may have changed after it was looked   *)
(* at; every statement about the daemon is one about now, or about what is *)
(* named there.                                                            *)
(*                                                                         *)
(* 2. The monitor.  WatchTypeOK and StreamInSight are inductive together.  *)
(***************************************************************************)
EXTENDS DaemonAdapter, RecoveryMonitor, FiniteSetTheorems, TLAPS

-----------------------------------------------------------------------------
(* 1. The adapter *)

LEMMA InitInv == Init => IInv
<1> SUFFICES ASSUME Init PROVE IInv
    OBVIOUS
<1>1. "default" \in Existing
    BY IdsAreApart, ConstantsKnown DEF Init, Existing
<1>2. TypeOK
    BY <1>1, ConstantsKnown DEF Init, TypeOK, Optional, NoResult, Answered, Existing
<1>3. InPlace /\ VersionChecked /\ ReportIsWhole
    BY DEF Init, InPlace, StepsOf, VersionChecked, ReportIsWhole, NoResult
<1>4. AddedAlone /\ Effective
    BY DEF Init, AddedAlone, Managed, Effective, Answered
<1> QED
    BY <1>2, <1>3, <1>4 DEF IInv

-----------------------------------------------------------------------------
(* Lemmas about the operators *)

\* A request carries what the daemon's interface has for it.
LEMMA RequestTyped ==
    ASSUME TypeOK, rpc \in RPCs
    PROVE  Request(rpc) \in RequestsOf(rpc)
<1> USE DEF TypeOK, Request, RequestsOf, Optional, Named
<1>1. owned \in ProfileIDs /\ Username \in Usernames /\ ManagedName \in ProfileNames
      /\ "default" \in ProfileIDs
    BY IdsAreApart, IdsAreKnown, ConstantsKnown
<1>2. CASE rpc \in {"Version", "Status"}
    BY <1>2 DEF StatusRequest
<1>3. CASE rpc \in {"ListProfiles", "AddProfile", "GetActiveProfile", "Down"}
    BY <1>1, <1>3
       DEF ListProfilesRequest, AddProfileRequest, GetActiveProfileRequest, DownRequest
<1>4. CASE rpc \in {"SwitchProfile", "SwitchDefault"}
    BY <1>1, <1>4 DEF SwitchProfileRequest
<1>5. CASE rpc \in {"RemoveProfile", "Login", "Up", "Logout"}
    BY <1>1, <1>5 DEF RemoveProfileRequest, LoginRequest, UpRequest, LogoutRequest
<1> QED
    BY <1>2, <1>3, <1>4, <1>5 DEF RPCs

Bodies == StatusResponse \cup ListProfilesResponse \cup AddProfileResponse \cup {<<>>}

\* An answer is the daemon's message, or an error, and never nil.
LEMMA Replied ==
    ASSUME NEW body \in Bodies, Reply(body)
    PROVE  /\ answer' \in Answers /\ answer' # Nil
           /\ answer'.ok => answer'.body = body
<1>1. answer' \in {[ok |-> TRUE, body |-> body], [ok |-> FALSE, body |-> Nil]}
    BY DEF Reply, Error
<1>2. TRUE \in BOOLEAN /\ FALSE \in BOOLEAN /\ body \in Optional(Bodies) /\ Nil \in Optional(Bodies)
    BY DEF Optional
<1>3. Answers = [ok : BOOLEAN, body : Optional(Bodies)]
    BY DEF Answers, Bodies
<1>4. [ok |-> TRUE, body |-> body] \in Answers /\ [ok |-> FALSE, body |-> Nil] \in Answers
    BY <1>2, <1>3, Zenon
<1>5. answer' \in Answers
    BY <1>1, <1>4, Zenon
<1>6. CASE answer' = [ok |-> TRUE, body |-> body]
    BY <1>5, <1>6, NilIsNoAnswer
<1>7. CASE answer' = [ok |-> FALSE, body |-> Nil]
    BY <1>5, <1>7, NilIsNoAnswer
<1> QED
    BY <1>1, <1>6, <1>7

LEMMA RefusedAnswer ==
    ASSUME answer' = Error
    PROVE  answer' \in Answers /\ answer' # Nil /\ ~answer'.ok
<1>1. FALSE \in BOOLEAN /\ Nil \in Optional(Bodies)
    BY DEF Optional
<1>2. Answers = [ok : BOOLEAN, body : Optional(Bodies)]
    BY DEF Answers, Bodies
<1>3. Error \in Answers
    BY <1>1, <1>2, Zenon DEF Error
<1> QED
    BY <1>3, NilIsNoAnswer DEF Error

\* The daemon's list is one of profiles, and it has all of them.
LEMMA ListingTyped ==
    ASSUME TypeOK
    PROVE  /\ Listing \in ListProfilesResponse
           /\ \A i \in Existing : \E p \in NormalizeProfiles(Listing) : p.id = i /\ p.name = name[i]
<1>1. \A i \in Existing : [id |-> i, name |-> name[i], isActive |-> i = active] \in Profile
    BY IdsAreKnown DEF TypeOK, Existing, Profile, Optional
<1>2. Listing \in ListProfilesResponse
    BY <1>1 DEF Listing, ListProfilesResponse, Optional
<1>3. NormalizeProfiles(Listing) = Listing.profiles \ {Nil}
    BY <1>2, NilIsNoMessage DEF NormalizeProfiles, GetAll, Listing
<1>4. ASSUME NEW i \in Existing
      PROVE  \E p \in NormalizeProfiles(Listing) : p.id = i /\ p.name = name[i]
    <2> DEFINE p == [id |-> i, name |-> name[i], isActive |-> i = active]
    <2>1. p \in Profile
        BY <1>1
    <2>2. p \in Listing.profiles
        BY DEF Listing
    <2>3. p \in NormalizeProfiles(Listing)
        BY <2>1, <2>2, <1>3, NilIsNoMessage
    <2> QED
        BY <2>3
<1> QED
    BY <1>2, <1>4

-----------------------------------------------------------------------------
(* The session's side: a call begins, and its requests are sent *)

LEMMA BeginKeepsInv ==
    ASSUME IInv, NEW o \in Ops, Begin(o)
    PROVE  IInv'
<1> USE DEF IInv, Begin, FirstRequest, daemonVars
<1>0. wire = Nil /\ answer = Nil
    BY DEF InPlace
<1>1. TypeOK'
    BY <1>0 DEF TypeOK, Existing, Answered, NoResult, Ops, RPCs
<1>2. InPlace'
    BY <1>0 DEF InPlace, StepsOf, Ops
<1>3. VersionChecked' /\ ReportIsWhole'
    BY <1>0 DEF VersionChecked, ReportIsWhole, NoResult, Answered
<1>4. AddedAlone' /\ Effective'
    BY <1>0 DEF Answered, AddedAlone, Effective, Managed
<1> QED
    BY <1>1, <1>2, <1>3, <1>4

LEMMA SendKeepsInv ==
    ASSUME IInv, Send
    PROVE  IInv'
<1> USE DEF IInv, Send, daemonVars, clientVars
<1>1. wire' \in RequestsOf(rpc)
    BY RequestTyped DEF TypeOK
<1>2. TypeOK'
    BY <1>1 DEF TypeOK, Existing, Answered
<1>3. InPlace'
    BY DEF InPlace, StepsOf, Request, Named
<1>4. VersionChecked' /\ ReportIsWhole'
    BY DEF VersionChecked, ReportIsWhole, Answered
<1>5. AddedAlone' /\ Effective'
    BY DEF AddedAlone, Managed, Effective, Answered
<1> QED
    BY <1>2, <1>3, <1>4, <1>5

-----------------------------------------------------------------------------
(* Beside the calls *)

LEMMA ForgetKeepsInv ==
    ASSUME IInv, Forget
    PROVE  IInv'
<1> USE DEF IInv, Forget, daemonVars, callVars
<1>1. wire = Nil /\ answer = Nil /\ rpc = "none"
    BY DEF InPlace, StepsOf
<1>2. TypeOK'
    BY <1>1 DEF TypeOK, Existing, Answered, NoResult
<1>3. InPlace' /\ VersionChecked' /\ ReportIsWhole'
    BY <1>1 DEF InPlace, VersionChecked, ReportIsWhole, NoResult
<1>4. AddedAlone' /\ Effective'
    BY <1>1 DEF AddedAlone, Managed, Effective, Answered
<1> QED
    BY <1>2, <1>3, <1>4

\* What the client knows of the selection is marked as out of date.
LEMMA UserSelectsKeepsInv ==
    ASSUME IInv, NEW i \in Existing, UserSelects(i)
    PROVE  IInv'
<1> USE DEF IInv, UserSelects, callVars, clientVars
<1>1. TypeOK'
    BY DEF TypeOK, Existing, Answered
<1>2. InPlace' /\ VersionChecked' /\ ReportIsWhole'
    BY DEF InPlace, Request, Named, VersionChecked, ReportIsWhole, Answered
<1>3. AddedAlone'
    BY DEF AddedAlone, Managed, Answered
<1>4. Effective'
    BY DEF Effective, Effect, Answered, Existing
<1> QED
    BY <1>1, <1>2, <1>3, <1>4

\* One profile fewer: none that was not there comes, and the list in the
\* client's hands may now show too many.
LEMMA UserRemovesKeepsInv ==
    ASSUME IInv, NEW i \in Existing, UserRemoves(i)
    PROVE  IInv'
<1> USE DEF IInv, UserRemoves, callVars, clientVars
<1>1. Existing' = Existing \ {i} /\ Managed' = Managed \ {i}
    BY DEF TypeOK, Existing, Managed
<1>2. TypeOK'
    BY <1>1 DEF TypeOK, Answered, Optional
<1>3. InPlace' /\ VersionChecked' /\ ReportIsWhole'
    BY DEF InPlace, Request, Named, VersionChecked, ReportIsWhole, Answered
<1>4. \A j \in Managed' : name'[j] = name[j]
    BY <1>1 DEF TypeOK, Managed
<1>5. AddedAlone'
    BY <1>1, <1>4 DEF AddedAlone, Answered
<1>6. Effective'
    BY <1>1 DEF Effective, Effect, Answered
<1> QED
    BY <1>2, <1>3, <1>5, <1>6

LEMMA ReplacedKeepsInv ==
    ASSUME IInv, Replaced
    PROVE  IInv'
<1> USE DEF IInv, Replaced, callVars, clientVars
<1>1. TypeOK'
    BY DEF TypeOK, Existing, Answered
<1>2. InPlace' /\ VersionChecked' /\ ReportIsWhole'
    BY DEF InPlace, Request, Named, VersionChecked, ReportIsWhole, Answered
<1>3. AddedAlone'
    BY DEF AddedAlone, Managed, Answered
<1>4. Effective'
    BY DEF Effective, Effect, Answered, Existing
<1> QED
    BY <1>1, <1>2, <1>3, <1>4

-----------------------------------------------------------------------------
(* The daemon serves a request *)

DaemonTyped ==
    /\ name \in [NewIDs \cup UserIDs -> Optional(ProfileNames)]
    /\ active \in Existing /\ up \in BOOLEAN
    /\ enrolled \subseteq Existing /\ minted \subseteq NewIDs

AnswerTyped ==
    answer \in Answers /\ answer # Nil /\ (answer.ok => answer.body \in ResponsesOf(rpc))

\* What is the same whichever request is served.
LEMMA ServeLeaves ==
    ASSUME IInv, Serve
    PROVE  /\ answer = Nil /\ wire = Request(rpc) /\ op # "none" /\ rpc # "none"
           /\ ReportIsWhole' /\ InPlace'
           /\ DaemonTyped' /\ AnswerTyped' => TypeOK'
<1> USE DEF IInv, Serve, clientVars
<1>1. answer = Nil /\ wire = Request(rpc) /\ op # "none" /\ rpc # "none"
    BY DEF InPlace, StepsOf, TypeOK, Ops
<1>2. ReportIsWhole' /\ InPlace'
    BY <1>1 DEF ReportIsWhole, InPlace
<1>3. DaemonTyped' /\ AnswerTyped' => TypeOK'
    BY DEF TypeOK, DaemonTyped, AnswerTyped, Answered, Optional
<1> QED
    BY <1>1, <1>2, <1>3

LEMMA ReadsKeepsInv ==
    ASSUME IInv, Serve, Reads
    PROVE  IInv'
<1> USE DEF IInv
<1>1. answer = Nil /\ wire = Request(rpc) /\ wire' = Nil /\ since' = since \ LooksAt(rpc)
      /\ UNCHANGED <<version, op, rpc, owned>>
    BY ServeLeaves DEF Serve, clientVars
<1>2. UNCHANGED <<name, active, up, enrolled, minted>>
    BY DEF Reads
<1>3. DaemonTyped' /\ Existing' = Existing /\ Managed' = Managed
    BY <1>2 DEF TypeOK, DaemonTyped, Existing, Managed
<1>4. CASE rpc \in {"Version", "Status"}
    <2>1. PICK full \in StatusBodies \cup {Nil} :
              Reply([status |-> IF up THEN "Connected"
                                ELSE IF active \in enrolled THEN "Idle" ELSE "NeedsLogin",
                     daemonVersion |-> version, fullStatus |-> full])
        BY <1>1, <1>4 DEF Reads, Request
    <2> DEFINE body == [status |-> IF up THEN "Connected"
                                   ELSE IF active \in enrolled THEN "Idle" ELSE "NeedsLogin",
                        daemonVersion |-> version, fullStatus |-> full]
    <2>2. body \in StatusResponse /\ body.daemonVersion = version
        BY ConstantsKnown DEF TypeOK, StatusResponse, StatusWords, Optional
    <2>3. AnswerTyped' /\ (answer'.ok => answer'.body.daemonVersion = version)
        BY <1>1, <1>4, <2>1, <2>2, Replied DEF AnswerTyped, Bodies, ResponsesOf
    <2>4. VersionChecked'
        BY <1>1, <1>4, <2>3 DEF VersionChecked, Answered
    <2>5. AddedAlone' /\ Effective'
        BY <1>1, <1>2, <1>3, <1>4 DEF AddedAlone, Effective, Effect
    <2> QED
        BY <1>3, <2>3, <2>4, <2>5, ServeLeaves
<1>5. CASE rpc = "ListProfiles"
    <2>1. Listing \in ListProfilesResponse
          /\ \A i \in Existing : \E p \in NormalizeProfiles(Listing) : p.name = name[i]
        BY ListingTyped
    <2>2. AnswerTyped' /\ (answer'.ok => answer'.body = Listing)
        BY <1>1, <1>5, <2>1, Replied DEF Reads, AnswerTyped, Bodies, ResponsesOf
    <2>3. since' = since \ {"profiles"}
        BY <1>1, <1>5 DEF LooksAt
    <2>4. VersionChecked'
        BY <1>1, <1>5, <2>3 DEF VersionChecked
    <2>5. Managed # {} => \E p \in NormalizeProfiles(Listing) : p.name = ManagedName
        BY <2>1 DEF AddedAlone, Managed, Existing
    <2>6. AddedAlone'
        BY <1>1, <1>2, <1>3, <1>5, <2>2, <2>5 DEF AddedAlone, Answered
    <2>7. Effective'
        BY <1>1, <1>5 DEF Effective, Effect
    <2> QED
        BY <1>3, <2>2, <2>4, <2>6, <2>7, ServeLeaves
<1>6. CASE rpc = "GetActiveProfile"
    <2>1. [id |-> active] \in GetActiveProfileResponse
        BY IdsAreKnown DEF TypeOK, Existing, GetActiveProfileResponse
    <2>2. AnswerTyped'
        BY <1>1, <1>6, <2>1, Replied
           DEF Reads, AnswerTyped, Bodies, ResponsesOf, GetActiveProfileResponse, AddProfileResponse
    <2>3. since' = since \ {"active"}
        BY <1>1, <1>6 DEF LooksAt
    <2>4. VersionChecked' /\ AddedAlone'
        BY <1>1, <1>2, <1>3, <1>6, <2>3 DEF VersionChecked, AddedAlone
    <2>5. answer'.ok => answer'.body.id = active
        BY <1>6, <2>1, Replied DEF Reads, GetActiveProfileResponse, AddProfileResponse, Bodies
    <2>6. Effective'
        BY <1>1, <1>2, <1>6, <2>2, <2>5 DEF Effective, Effect, Answered, AnswerTyped
    <2> QED
        BY <1>3, <2>2, <2>4, <2>6, ServeLeaves
<1> QED
    BY <1>4, <1>5, <1>6 DEF Reads

LEMMA AddsKeepsInv ==
    ASSUME IInv, Serve, Adds
    PROVE  IInv'
<1> USE DEF IInv
<1>1. answer = Nil /\ wire = Request(rpc) /\ rpc = "AddProfile"
      /\ since' = since /\ UNCHANGED <<version, op, rpc, owned>>
    BY ServeLeaves DEF Serve, clientVars, Adds, LooksAt
<1>2. PICK i \in NewIDs \ minted :
              /\ name' = [name EXCEPT ![i] = ManagedName]
              /\ minted' = minted \cup {i}
              /\ Reply([id |-> i])
    BY <1>1 DEF Adds, Request
<1>3. UNCHANGED <<active, up, enrolled>>
    BY DEF Adds
<1>4. Managed = {}
    BY <1>1 DEF AddedAlone
<1>5. Existing' = Existing \cup {i} /\ Managed' = {i} /\ name'[i] = ManagedName
    BY <1>2, <1>4, ConstantsKnown DEF TypeOK, Existing, Managed
<1>6. DaemonTyped'
    BY <1>2, <1>3, <1>5, ConstantsKnown DEF TypeOK, DaemonTyped, Optional
<1>7. [id |-> i] \in AddProfileResponse
    BY <1>2, IdsAreKnown DEF AddProfileResponse
<1>8. AnswerTyped' /\ (answer'.ok => answer'.body.id = i)
    BY <1>1, <1>2, <1>7, Replied DEF AnswerTyped, Bodies, ResponsesOf
<1>9. VersionChecked'
    BY <1>1 DEF VersionChecked
<1>10. AddedAlone'
    BY <1>1, <1>5, <1>8 DEF AddedAlone, AnswerTyped
<1>11. Effective'
    BY <1>1, <1>2, <1>5, <1>8 DEF Effective, Effect, Answered
<1> QED
    BY <1>6, <1>8, <1>9, <1>10, <1>11, ServeLeaves

\* Every other request is for the client's own profile, by its id, or for
\* "default"; no profile is added, and only the client's own may go.
LEMMA NamesOwn ==
    ASSUME IInv, Serve,
           rpc \in {"SwitchProfile", "RemoveProfile", "Login", "Up", "Logout"}
    PROVE  wire.profileName = owned /\ owned \in NewIDs
<1>1. wire = Request(rpc)
    BY ServeLeaves
<1>2. op \notin {"none", "create", "version", "status"}
    BY DEF IInv, InPlace, StepsOf, TypeOK, Ops
<1> QED
    BY <1>1, <1>2 DEF IInv, InPlace, TypeOK, Request, Named

LEMMA SwitchesKeepsInv ==
    ASSUME IInv, Serve, Switches
    PROVE  IInv'
<1> USE DEF IInv
<1>1. answer = Nil /\ wire = Request(rpc) /\ rpc \in {"SwitchProfile", "SwitchDefault"}
      /\ since' = since \ {"active"} /\ UNCHANGED <<version, op, rpc, owned>>
    BY ServeLeaves DEF Serve, clientVars, Switches, LooksAt
<1>2. /\ UNCHANGED <<name, minted, enrolled>> /\ active' = wire.profileName
      /\ active' \in Existing /\ up' \in BOOLEAN /\ Reply([id |-> active'])
    BY DEF Switches, Selects, TypeOK
<1>3. DaemonTyped' /\ Existing' = Existing /\ Managed' = Managed
    BY <1>2 DEF TypeOK, DaemonTyped, Existing, Managed
<1>4. [id |-> active'] \in SwitchProfileResponse
    BY <1>2, IdsAreKnown DEF SwitchProfileResponse, Existing
<1>5. AnswerTyped'
    BY <1>1, <1>2, <1>4, Replied
       DEF AnswerTyped, Bodies, ResponsesOf, SwitchProfileResponse, AddProfileResponse
<1>6. VersionChecked' /\ AddedAlone'
    BY <1>1, <1>2, <1>3 DEF VersionChecked, AddedAlone
<1>7. rpc = "SwitchProfile" => active' = owned
    BY <1>2, NamesOwn
<1>8. Effective'
    BY <1>1, <1>5, <1>7 DEF Effective, Effect, AnswerTyped
<1> QED
    BY <1>3, <1>5, <1>6, <1>8, ServeLeaves

LEMMA RemovesKeepsInv ==
    ASSUME IInv, Serve, Removes
    PROVE  IInv'
<1> USE DEF IInv
<1>1. answer = Nil /\ rpc = "RemoveProfile" /\ wire.profileName = owned /\ owned \in NewIDs
      /\ since' = since /\ UNCHANGED <<version, op, rpc, owned>>
    BY ServeLeaves, NamesOwn DEF Serve, clientVars, Removes, LooksAt
<1>2. /\ owned \in Existing \ {active} /\ name' = [name EXCEPT ![owned] = Nil]
      /\ enrolled' = enrolled \ {owned} /\ Reply([id |-> owned])
      /\ UNCHANGED <<active, up, minted>>
    BY <1>1 DEF Removes
<1>3. Existing' = Existing \ {owned} /\ Managed' = Managed \ {owned}
      /\ \A i \in Managed' : name'[i] = name[i]
    BY <1>2 DEF TypeOK, Existing, Managed
<1>4. DaemonTyped'
    BY <1>2, <1>3 DEF TypeOK, DaemonTyped, Optional
<1>5. [id |-> owned] \in RemoveProfileResponse
    BY <1>1, IdsAreKnown DEF RemoveProfileResponse
<1>6. AnswerTyped'
    BY <1>1, <1>2, <1>5, Replied
       DEF AnswerTyped, Bodies, ResponsesOf, RemoveProfileResponse, AddProfileResponse
<1>7. VersionChecked' /\ AddedAlone'
    BY <1>1, <1>3 DEF VersionChecked, AddedAlone
<1>8. Effective'
    BY <1>1, <1>3 DEF Effective, Effect
<1> QED
    BY <1>4, <1>6, <1>7, <1>8, ServeLeaves

LEMMA EmptyAnswer ==
    ASSUME Reply(<<>>), rpc \in {"Login", "Up", "Down", "Logout"}, rpc' = rpc
    PROVE  AnswerTyped'
BY Replied
   DEF AnswerTyped, Bodies, ResponsesOf, LoginResponse, UpResponse, DownResponse, LogoutResponse

\* Login, Up, Down and Logout leave the profiles and their names.
LEMMA EngineKeepsInv ==
    ASSUME IInv, Serve, LogsIn \/ GoesUp \/ GoesDown \/ LogsOut
    PROVE  IInv'
<1> USE DEF IInv
<1>1. answer = Nil /\ wire = Request(rpc) /\ rpc \in {"Login", "Up", "Down", "Logout"}
      /\ since' = since \ LooksAt(rpc) /\ UNCHANGED <<version, op, rpc, owned>>
    BY ServeLeaves DEF Serve, clientVars, LogsIn, GoesUp, GoesDown, LogsOut
<1>2. Reply(<<>>) /\ UNCHANGED <<name, minted>>
    BY DEF LogsIn, GoesUp, GoesDown, LogsOut, Selects
<1>3. AnswerTyped'
    BY <1>1, <1>2, EmptyAnswer
<1>4. Existing' = Existing /\ Managed' = Managed
    BY <1>2 DEF Existing, Managed
<1>5. VersionChecked' /\ AddedAlone'
    BY <1>1, <1>2, <1>4 DEF VersionChecked, AddedAlone, LooksAt
<1>6. CASE LogsIn
    <2>1. active' = owned /\ owned \in Existing /\ up' \in BOOLEAN /\ enrolled' = enrolled \cup {owned}
          /\ rpc = "Login"
        BY <1>6, NamesOwn DEF LogsIn, Selects, TypeOK
    <2> QED
        BY <1>1, <1>2, <1>3, <1>4, <1>5, <2>1, ServeLeaves
           DEF TypeOK, DaemonTyped, Effective, Effect
<1>7. CASE GoesUp
    <2>1. active' = owned /\ owned \in Existing /\ up' = TRUE /\ enrolled' = enrolled
          /\ rpc = "Up"
        BY <1>7, NamesOwn DEF GoesUp
    <2> QED
        BY <1>1, <1>2, <1>3, <1>4, <1>5, <2>1, ServeLeaves
           DEF TypeOK, DaemonTyped, Effective, Effect
<1>8. CASE GoesDown
    <2>1. UNCHANGED <<active, enrolled>> /\ up' = FALSE /\ rpc = "Down" /\ since' = since
        BY <1>1, <1>8 DEF GoesDown, LooksAt
    <2> QED
        BY <1>1, <1>2, <1>3, <1>4, <1>5, <2>1, ServeLeaves
           DEF TypeOK, DaemonTyped, Effective, Effect
<1>9. CASE LogsOut
    <2>1. UNCHANGED active /\ enrolled' = enrolled \ {owned} /\ up' \in BOOLEAN /\ rpc = "Logout"
        BY <1>9, NamesOwn DEF LogsOut, TypeOK
    <2> QED
        BY <1>1, <1>2, <1>3, <1>4, <1>5, <2>1, ServeLeaves
           DEF TypeOK, DaemonTyped, Effective, Effect
<1> QED
    BY <1>6, <1>7, <1>8, <1>9

LEMMA RefusesKeepsInv ==
    ASSUME IInv, Serve, Refuses
    PROVE  IInv'
<1> USE DEF IInv
<1>1. answer = Nil /\ rpc # "none" /\ since' = since \ LooksAt(rpc)
      /\ UNCHANGED <<version, op, rpc, owned>>
    BY ServeLeaves DEF Serve, clientVars
<1>2. UNCHANGED <<name, active, up, enrolled, minted>>
    BY DEF Refuses
<1>3. DaemonTyped' /\ Existing' = Existing /\ Managed' = Managed
    BY <1>2 DEF TypeOK, DaemonTyped, Existing, Managed
<1>4. AnswerTyped' /\ ~Answered'
    BY RefusedAnswer DEF Refuses, AnswerTyped, Answered
<1>5. VersionChecked'
    BY <1>1, <1>4 DEF VersionChecked, LooksAt
<1>6. AddedAlone'
    BY <1>1, <1>2, <1>3, <1>4 DEF AddedAlone, AnswerTyped
<1>7. Effective'
    BY <1>4 DEF Effective, AnswerTyped
<1> QED
    BY <1>3, <1>4, <1>5, <1>6, <1>7, ServeLeaves

LEMMA ServeKeepsInv ==
    ASSUME IInv, Serve
    PROVE  IInv'
BY ReadsKeepsInv, AddsKeepsInv, SwitchesKeepsInv, RemovesKeepsInv, EngineKeepsInv,
   RefusesKeepsInv
   DEF Serve

-----------------------------------------------------------------------------
(* An answer is read *)

Read == IInv /\ answer # Nil /\ answer' = Nil /\ UNCHANGED <<daemonVars, wire, since>>

LEMMA ReadAt ==
    ASSUME Read
    PROVE  wire = Nil /\ op \in Ops /\ rpc \in RPCs
BY DEF Read, IInv, InPlace, StepsOf, TypeOK, Ops, RPCs

LEMMA ResultRead ==
    ASSUME NEW o, NEW ok \in BOOLEAN, NEW snapshot, NEW told,
           result' = [op |-> o, ok |-> ok, snapshot |-> snapshot, told |-> told]
    PROVE  /\ result'.op = o /\ result'.snapshot = snapshot /\ result'.told = told
           /\ result'.ok \in BOOLEAN /\ (result'.ok => ok)
<1>1. result'.op = o /\ result'.snapshot = snapshot /\ result'.told = told
    BY Zenon
<1>2. CASE ok = TRUE
    <2>1. result' = [op |-> o, ok |-> TRUE, snapshot |-> snapshot, told |-> told]
        BY <1>2, Zenon
    <2> QED
        BY <1>1, <1>2, <2>1
<1>3. CASE ok = FALSE
    <2>1. result' = [op |-> o, ok |-> FALSE, snapshot |-> snapshot, told |-> told]
        BY <1>3, Zenon
    <2> QED
        BY <1>1, <1>3, <2>1
<1> QED
    BY <1>2, <1>3

\* A call may end wherever it is, as long as it takes no id for its success but
\* one it was given, and passes on no status but the one it checked.
LEMMA EndsKeepsInv ==
    ASSUME Read, NEW ok \in BOOLEAN, NEW id \in NewIDs \cup {""}, NEW snapshot, NEW told,
           Ends(ok, id, snapshot, told),
           ok /\ op = "create" => id # "",
           op \in {"version", "status"} => id = owned,
           ok /\ op = "status" =>
               /\ told \in StatusResponse /\ told.daemonVersion = Expected
               /\ snapshot = NormalizeStatus(told)
    PROVE  IInv'
<1> USE DEF Read, IInv, daemonVars, Ends
<1>1. wire = Nil /\ op \in Ops
    BY ReadAt
<1>2. result' = [op |-> op, ok |-> ok, snapshot |-> snapshot, told |-> told]
    OBVIOUS
<1>3. /\ result'.op = op /\ result'.snapshot = snapshot /\ result'.told = told
      /\ result'.ok \in BOOLEAN /\ (result'.ok => ok)
    BY <1>2, ResultRead
<1>4. owned' \in NewIDs \cup {""} /\ enrolling' \in BOOLEAN
    BY DEF TypeOK
<1>5. TypeOK'
    BY <1>1, <1>3, <1>4 DEF TypeOK, Existing, Answered, Optional
<1>6. InPlace' /\ VersionChecked'
    BY <1>1 DEF InPlace, StepsOf, VersionChecked
<1>7. ReportIsWhole'
    BY <1>3 DEF ReportIsWhole
<1>8. AddedAlone' /\ Effective'
    BY DEF AddedAlone, Managed, Effective, Answered
<1> QED
    BY <1>5, <1>6, <1>7, <1>8

\* Failing is always possible.
LEMMA FailsKeepsInv ==
    ASSUME Read, End(FALSE)
    PROVE  IInv'
BY EndsKeepsInv DEF End, Read, IInv, TypeOK

\* The next request of a call, when the version was looked at.
LEMMA ContinueKeepsInv ==
    ASSUME Read, NEW r \in RPCs \ {"Version", "Status"}, Continue(r),
           r \in StepsOf(op), rpc \notin {"none", "Version", "Status"} \/ version = Expected \/ "version" \in since,
           r = "AddProfile" => Managed = {},
           r \in {"Down", "SwitchDefault"} => active = owned \/ "active" \in since
    PROVE  IInv'
<1> USE DEF Read, IInv, daemonVars, clientVars, Continue
<1>1. wire = Nil /\ op \in Ops
    BY ReadAt
<1>2. TypeOK'
    BY <1>1 DEF TypeOK, Existing, Answered, Optional
<1>3. InPlace'
    BY <1>1 DEF InPlace, Ops
<1>4. VersionChecked' /\ ReportIsWhole'
    BY DEF VersionChecked, ReportIsWhole, Answered
<1>5. AddedAlone' /\ Effective'
    BY DEF AddedAlone, Managed, Effective, Answered
<1> QED
    BY <1>2, <1>3, <1>4, <1>5

LEMMA ReceiveVersionKeepsInv ==
    ASSUME Read, answer.ok, ReceiveVersion
    PROVE  IInv'
<1> USE DEF ReceiveVersion
<1>1. op \in Ops \ {"status"} /\ owned \in NewIDs \cup {""}
    BY ReadAt DEF Read, IInv, InPlace, StepsOf, TypeOK, Ops
<1>2. answer.body.daemonVersion = version \/ "version" \in since
    BY DEF Read, IInv, VersionChecked, Answered
<1>3. CASE op = "version"
    BY <1>1, <1>3, EndsKeepsInv DEF End
<1>4. CASE op # "version" /\ answer.body.daemonVersion # Expected
    BY <1>4, FailsKeepsInv
<1>5. CASE op # "version" /\ answer.body.daemonVersion = Expected
    BY <1>1, <1>2, <1>5, ContinueKeepsInv DEF RPCs, StepsOf, Ops
<1> QED
    BY <1>3, <1>4, <1>5

LEMMA ReceiveStatusKeepsInv ==
    ASSUME Read, answer.ok, ReceiveStatus
    PROVE  IInv'
<1> DEFINE body == answer.body
           snapshot == NormalizeStatus(body)
           ok == snapshot.daemonVersion = Expected
<1>1. body \in StatusResponse
    BY DEF Read, IInv, TypeOK, Answered, ResponsesOf, ReceiveStatus
<1>2. snapshot.daemonVersion = body.daemonVersion
    BY <1>1, NilIsNoMessage DEF NormalizeStatus
<1>3. Ends(ok, owned, snapshot, body) /\ ok \in BOOLEAN
    BY DEF ReceiveStatus
<1>4. op = "status" /\ owned \in NewIDs \cup {""}
    BY ReadAt DEF Read, IInv, InPlace, StepsOf, TypeOK, Ops, ReceiveStatus
<1> HIDE DEF body, snapshot
<1> QED
    BY <1>1, <1>2, <1>3, <1>4, EndsKeepsInv DEF snapshot

\* A list without the name is read as one: the profile may be added.
LEMMA EnsureKeepsInv ==
    ASSUME Read, answer.ok, Ensure
    PROVE  IInv'
<1> USE DEF Ensure
<1>1. CASE \E p \in NormalizeProfiles(answer.body) : p.name = ManagedName
    BY <1>1, FailsKeepsInv
<1>2. CASE ~\E p \in NormalizeProfiles(answer.body) : p.name = ManagedName
    <2>1. Managed = {}
        BY <1>2 DEF Read, IInv, AddedAlone, Answered
    <2> QED
        BY <1>2, <2>1, ContinueKeepsInv DEF RPCs, StepsOf
<1> QED
    BY <1>1, <1>2

LEMMA ValidateKeepsInv ==
    ASSUME Read, answer.ok, Validate
    PROVE  IInv'
<1> USE DEF Validate
<1>1. CASE ~\E p \in NormalizeProfiles(answer.body) : p.id = owned
    BY <1>1, FailsKeepsInv
<1>2. CASE \E p \in NormalizeProfiles(answer.body) : p.id = owned
    <2>1. op \in {"select", "disconnect", "enroll", "connect", "deregister", "remove"}
        BY ReadAt DEF Read, IInv, InPlace, StepsOf, Ops
    <2> DEFINE r == AfterValidate[op]
    <2>2. r \in StepsOf(op) /\ r \in RPCs \ {"Version", "Status", "AddProfile", "Down", "SwitchDefault"}
        BY <2>1 DEF AfterValidate, StepsOf, RPCs
    <2>3. Continue(r)
        BY <1>2
    <2> HIDE DEF r
    <2> QED
        BY <2>2, <2>3, ContinueKeepsInv
<1> QED
    BY <1>1, <1>2

LEMMA ReceiveAddedKeepsInv ==
    ASSUME Read, answer.ok, ReceiveAdded
    PROVE  IInv'
<1> DEFINE id == answer.body.id
<1>1. id \in NewIDs
    BY DEF Read, IInv, Effective, Effect, Answered, ReceiveAdded
<1>2. op = "create"
    BY ReadAt DEF Read, IInv, InPlace, StepsOf, Ops, ReceiveAdded
<1>3. Ends(id # "", id, EmptySnapshot, Nil)
    BY DEF ReceiveAdded
<1> HIDE DEF id
<1> QED
    BY <1>1, <1>2, <1>3, EndsKeepsInv

LEMMA ReceiveProfileKeepsInv ==
    ASSUME Read, answer.ok, ReceiveSwitched \/ ReceiveActive \/ ReceiveDefault
    PROVE  IInv'
<1>1. CASE ReceiveSwitched
    <2>1. op \in {"select", "disconnect"} /\ rpc = "SwitchProfile"
          /\ (active = owned \/ "active" \in since)
        BY <1>1, ReadAt
           DEF Read, IInv, InPlace, StepsOf, Ops, ReceiveSwitched, Effective, Effect, Answered
    <2>2. CASE answer.body.id # owned
        BY <1>1, <2>2, FailsKeepsInv DEF ReceiveSwitched
    <2>3. CASE answer.body.id = owned /\ op = "select"
        BY <1>1, <2>3, EndsKeepsInv DEF ReceiveSwitched, End, Read, IInv, TypeOK
    <2>4. CASE answer.body.id = owned /\ op = "disconnect"
        BY <1>1, <2>1, <2>4, ContinueKeepsInv DEF ReceiveSwitched, RPCs, StepsOf
    <2> QED
        BY <2>1, <2>2, <2>3, <2>4
<1>2. CASE ReceiveActive
    <2>1. op = "remove" /\ rpc = "GetActiveProfile"
        BY <1>2, ReadAt DEF Read, IInv, InPlace, StepsOf, Ops, ReceiveActive
    <2>2. answer.body.id = active \/ "active" \in since
        BY <2>1 DEF Read, IInv, Effective, Effect, Answered
    <2>3. PICK r \in {"SwitchDefault", "RemoveProfile"} :
              Continue(r) /\ (r = "SwitchDefault" => answer.body.id = owned)
        BY <1>2 DEF ReceiveActive
    <2> QED
        BY <2>1, <2>2, <2>3, ContinueKeepsInv DEF RPCs, StepsOf
<1>3. CASE ReceiveDefault
    <2>1. op = "remove" /\ rpc = "SwitchDefault"
        BY <1>3, ReadAt DEF Read, IInv, InPlace, StepsOf, Ops, ReceiveDefault
    <2>2. End(FALSE) \/ Continue("RemoveProfile")
        BY <1>3 DEF ReceiveDefault
    <2> QED
        BY <2>1, <2>2, ContinueKeepsInv, FailsKeepsInv DEF RPCs, StepsOf
<1> QED
    BY <1>1, <1>2, <1>3

LEMMA ReceiveLastKeepsInv ==
    ASSUME Read, answer.ok, ReceiveRemoved \/ ReceiveDone
    PROVE  IInv'
<1>1. op \in {"enroll", "connect", "disconnect", "deregister", "remove"}
    BY ReadAt DEF Read, IInv, InPlace, StepsOf, Ops, ReceiveRemoved, ReceiveDone
<1>2. CASE ReceiveRemoved
    <2> DEFINE ok == answer.body.id = owned
    <2>1. Ends(ok, "", EmptySnapshot, Nil) /\ ok \in BOOLEAN
        BY <1>2 DEF ReceiveRemoved
    <2> HIDE DEF ok
    <2> QED
        BY <1>1, <2>1, EndsKeepsInv
<1>3. CASE ReceiveDone
    BY <1>1, <1>3, EndsKeepsInv DEF ReceiveDone, End, Read, IInv, TypeOK
<1> QED
    BY <1>2, <1>3

LEMMA ReceiveKeepsInv ==
    ASSUME IInv, Receive
    PROVE  IInv'
<1>1. Read
    BY DEF Receive, Read
<1>2. CASE ~answer.ok
    BY <1>1, <1>2, FailsKeepsInv DEF Receive
<1>3. CASE answer.ok
    BY <1>1, <1>3, ReceiveVersionKeepsInv, ReceiveStatusKeepsInv, EnsureKeepsInv,
       ValidateKeepsInv, ReceiveAddedKeepsInv, ReceiveProfileKeepsInv, ReceiveLastKeepsInv
       DEF Receive
<1> QED
    BY <1>2, <1>3

-----------------------------------------------------------------------------
(* The theorems *)

LEMMA NextKeepsInv == IInv /\ [Next]_vars => IInv'
<1> SUFFICES ASSUME IInv, [Next]_vars PROVE IInv'
    OBVIOUS
<1>1. CASE UNCHANGED vars
    <2> USE <1>1 DEF vars, daemonVars, callVars, clientVars, IInv
    <2>1. TypeOK'
        BY DEF TypeOK, Existing, Answered
    <2>2. InPlace' /\ VersionChecked' /\ ReportIsWhole'
        BY DEF InPlace, Request, Named, VersionChecked, ReportIsWhole, Answered
    <2>3. AddedAlone' /\ Effective'
        BY DEF AddedAlone, Managed, Effective, Effect, Existing, Answered
    <2> QED
        BY <2>1, <2>2, <2>3
<1> QED
    BY <1>1, BeginKeepsInv, SendKeepsInv, ServeKeepsInv, ReceiveKeepsInv, ForgetKeepsInv,
       UserSelectsKeepsInv, UserRemovesKeepsInv, ReplacedKeepsInv
       DEF Next

\* What is known at each request of a call is known in every state.
THEOREM Invariance == Spec => []IInv
BY InitInv, NextKeepsInv, PTL DEF Spec

\* The types of the daemon, of the call and of what is on its way: a request has
\* the fields of its message, and an answer those of the answer to it.
THEOREM TypeCorrect == Spec => []TypeOK
BY Invariance, PTL DEF IInv

\* requireCompatible stands before every request that changes the daemon, on the
\* way of every operation; Status checks what it has read.
THEOREM ExactVersion == Spec => []ExactVersionOnly
<1>1. IInv => ExactVersionOnly
    BY DEF IInv, VersionChecked, ReportIsWhole, ExactVersionOnly, Changing, RPCs
<1> QED
    BY <1>1, Invariance, PTL

\* Ensure asks for the list before it adds, and takes a name that is there for a
\* conflict: retries after answers that were lost add no second profile.
THEOREM OneManagedProfile == Spec => []OneManaged
<1>1. IInv => OneManaged
    <2> SUFFICES ASSUME IInv PROVE OneManaged
        OBVIOUS
    <2>1. Existing \ UserIDs = Managed
        BY IdsAreApart DEF Existing, Managed
    <2>2. CASE Managed = {}
        BY <2>1, <2>2, FS_EmptySet DEF OneManaged
    <2>3. CASE Managed # {}
        <3>1. PICK i \in Managed : TRUE
            BY <2>3
        <3>2. Managed = {i}
            BY <3>1 DEF IInv, AddedAlone
        <3> QED
            BY <2>1, <3>2, FS_Singleton DEF OneManaged
    <2> QED
        BY <2>2, <2>3
<1> QED
    BY <1>1, Invariance, PTL

\* normalizePeer gives a path to connected peers only, of the kind the daemon
\* reports, and drops none of them.
LEMMA PathsOfPeers ==
    ASSUME NEW told \in StatusResponse
    PROVE  LET peers == IF told.fullStatus = Nil THEN {} ELSE told.fullStatus.peers \ {Nil}
               shown == {p.path : p \in NormalizeStatus(told).peers}
           IN  /\ "p2p" \in shown <=>
                      \E p \in peers : p.connStatus = "Connected" /\ ~p.relayed
               /\ "relay" \in shown <=>
                      \E p \in peers : p.connStatus = "Connected" /\ p.relayed
<1> DEFINE peers == IF told.fullStatus = Nil THEN {} ELSE told.fullStatus.peers \ {Nil}
           shown == {p.path : p \in NormalizeStatus(told).peers}
<1>1. told # Nil /\ told.fullStatus \in Optional(FullStatus)
    BY NilIsNoMessage DEF StatusResponse
<1>2. peers \subseteq PeerState
    BY <1>1 DEF FullStatus, Optional
<1>3. NormalizeStatus(told).peers = {NormalPeer(p) : p \in peers}
    BY <1>1 DEF NormalizeStatus, GetFrom, GetAll
<1>4. shown = {NormalPeer(p).path : p \in peers}
    BY <1>3
<1>5. ASSUME NEW p \in PeerState
      PROVE  /\ NormalPeer(p).path = "p2p" <=> p.connStatus = "Connected" /\ ~p.relayed
             /\ NormalPeer(p).path = "relay" <=> p.connStatus = "Connected" /\ p.relayed
    BY DEF NormalPeer, NormalPeerState, PeerState, ConnWords
<1> HIDE DEF peers, shown
<1>6. /\ "p2p" \in shown <=> \E p \in peers : p.connStatus = "Connected" /\ ~p.relayed
      /\ "relay" \in shown <=> \E p \in peers : p.connStatus = "Connected" /\ p.relayed
    BY <1>2, <1>4, <1>5
<1> QED
    BY <1>6 DEF peers, shown

\* What the session is given of a path is what the daemon said of a peer.
THEOREM PathsAreReal == Spec => []PathIsReal
<1>1. IInv => PathIsReal
    <2> SUFFICES ASSUME IInv, result.op = "status", result.ok PROVE PathIsReal
        BY DEF PathIsReal
    <2>1. result.told \in StatusResponse /\ result.snapshot = NormalizeStatus(result.told)
        BY DEF IInv, ReportIsWhole
    <2> QED
        BY <2>1, PathsOfPeers DEF PathIsReal
<1> QED
    BY <1>1, Invariance, PTL

\* SwitchProfile, Login, Up, Logout and RemoveProfile carry the id of the client's
\* own profile, and an added profile has an id that no user's profile has.
THEOREM ForeignLeftAlone == Spec => ForeignUntouched
<1>1. ASSUME IInv, Serve
      PROVE  /\ \A i \in UserIDs : name'[i] = name[i] /\ (i \in enrolled' <=> i \in enrolled)
             /\ active' \in {active, owned, "default"}
    <2>1. wire = Request(rpc)
        BY <1>1, ServeLeaves
    <2>2. CASE Reads \/ GoesDown \/ Refuses
        BY <2>2 DEF Reads, GoesDown, Refuses
    <2>3. CASE Adds
        <3>1. UNCHANGED <<active, enrolled>> /\ \E i \in NewIDs : name' = [name EXCEPT ![i] = wire.profileName]
            BY <2>3 DEF Adds
        <3> QED
            BY <1>1, <3>1, IdsAreApart DEF IInv, TypeOK
    <2>4. CASE Switches
        <3>1. UNCHANGED <<name, enrolled>> /\ active' = wire.profileName
              /\ rpc \in {"SwitchProfile", "SwitchDefault"}
            BY <2>4 DEF Switches, Selects
        <3>2. wire.profileName \in {owned, "default"}
            BY <1>1, <2>1, <3>1, NamesOwn DEF Request, Named
        <3> QED
            BY <3>1, <3>2
    <2>5. CASE Removes \/ LogsIn \/ GoesUp \/ LogsOut
        <3>1. wire.profileName = owned /\ owned \in NewIDs
            BY <1>1, <2>5, NamesOwn DEF Removes, LogsIn, GoesUp, LogsOut
        <3>2. /\ name' \in {name, [name EXCEPT ![owned] = Nil]}
              /\ enrolled' \in {enrolled, enrolled \ {owned}, enrolled \cup {owned}}
              /\ active' \in {active, owned}
            BY <2>5, <3>1 DEF Removes, LogsIn, GoesUp, LogsOut, Selects
        <3>3. \A i \in UserIDs : i # owned /\ name'[i] = name[i]
            BY <1>1, <3>1, <3>2, IdsAreApart DEF IInv, TypeOK
        <3> QED
            BY <3>2, <3>3
    <2> QED
        BY <1>1, <2>2, <2>3, <2>4, <2>5 DEF Serve
<1>2. IInv /\ [Next]_vars =>
        [Serve =>
           /\ \A i \in UserIDs : name'[i] = name[i] /\ (i \in enrolled' <=> i \in enrolled)
           /\ active' \in {active, owned, "default"}]_vars
    BY <1>1
<1> QED
    BY <1>2, Invariance, PTL DEF Spec, ForeignUntouched

\* SwitchDefault is asked for only where GetActiveProfile has named the client's
\* own profile, and Down only after a switch to it.
THEOREM UsersEngineYields == Spec => UserEngineYields
<1>1. ASSUME IInv, Serve, up, active \in UserIDs, ~(up' /\ active' = active)
      PROVE  active' = owned \/ "active" \in since
    <2>1. answer = Nil /\ wire = Request(rpc)
        BY <1>1, ServeLeaves
    <2>2. rpc \in {"Down", "SwitchDefault"} => active = owned \/ "active" \in since
        BY <1>1, <2>1 DEF IInv, Effective
    <2>3. rpc \in {"Down", "SwitchDefault"} => owned \in NewIDs
        BY <1>1 DEF IInv, InPlace, StepsOf, TypeOK, Ops
    <2>4. rpc \in {"Down", "SwitchDefault"} => "active" \in since
        BY <1>1, <2>2, <2>3, IdsAreApart
    <2>5. CASE Reads \/ Adds \/ Removes \/ Refuses
        BY <1>1, <2>5 DEF Reads, Adds, Removes, Refuses
    <2>6. CASE GoesDown
        BY <2>4, <2>6 DEF GoesDown
    <2>7. CASE Switches
        BY <1>1, <2>4, <2>7, NamesOwn DEF Switches, Selects
    <2>8. CASE LogsIn \/ GoesUp
        BY <1>1, <2>8, NamesOwn DEF LogsIn, GoesUp, Selects
    <2>9. CASE LogsOut
        BY <1>1, <2>9, NamesOwn, IdsAreApart DEF LogsOut
    <2> QED
        BY <1>1, <2>5, <2>6, <2>7, <2>8, <2>9 DEF Serve
<1>2. IInv /\ [Next]_vars =>
        [Serve /\ up /\ active \in UserIDs /\ ~(up' /\ active' = active) =>
           active' = owned \/ "active" \in since]_vars
    BY <1>1
<1> QED
    BY <1>2, Invariance, PTL DEF Spec, UserEngineYields

\* A call ends well at its last request only, and what that request did is still
\* so, or was undone by others after the daemon had answered it.
THEOREM OkIsDone == Spec => OkMeansDone
<1>1. ASSUME IInv, Next, op # "none", op' = "none", result'.ok
      PROVE  Done(op)
    <2>1. Receive
        BY <1>1 DEF Next, Begin, Send, Serve, Forget, UserSelects, UserRemoves, Replaced,
                    callVars, Ops
    <2>2. Read
        BY <1>1, <2>1 DEF Read, Receive
    <2>3. ~End(FALSE)
        BY <1>1, ResultRead DEF End, Ends
    <2>4. \A r : ~Continue(r)
        BY <1>1 DEF Continue
    <2>5. answer.ok /\ Answered
        BY <2>1, <2>3 DEF Receive, Answered
    <2>6. rpc \in StepsOf(op) /\ op \in Ops /\ Effect
        BY <1>1, <2>2, <2>5, ReadAt DEF IInv, InPlace, Effective
    <2>7. CASE ReceiveVersion \/ ReceiveStatus
        <3>1. op \in {"version", "status"}
            BY <2>3, <2>4, <2>6, <2>7 DEF ReceiveVersion, ReceiveStatus, StepsOf, Ops
        <3> QED
            BY <3>1 DEF Done
    <2>8. CASE ReceiveAdded
        <3>1. op = "create"
            BY <2>6, <2>8 DEF ReceiveAdded, StepsOf, Ops
        <3>2. owned' = answer.body.id
            <4> DEFINE id == answer.body.id
                       ok == id # ""
            <4>1. Ends(ok, id, EmptySnapshot, Nil) /\ ok \in BOOLEAN
                BY <2>8 DEF ReceiveAdded
            <4> HIDE DEF id, ok
            <4>2. ok
                BY <1>1, <4>1, ResultRead DEF Ends
            <4>3. owned' = id
                BY <4>1, <4>2 DEF Ends
            <4> QED
                BY <4>3 DEF id
        <3> QED
            BY <2>6, <2>8, <3>1, <3>2 DEF Effect, Done, ReceiveAdded
    <2>9. CASE ReceiveSwitched
        <3>1. op = "select"
            BY <2>3, <2>4, <2>9 DEF ReceiveSwitched
        <3> QED
            BY <2>6, <2>9, <3>1 DEF Effect, Done, ReceiveSwitched
    <2>10. CASE ReceiveDone
        <3>1. \/ rpc = "Login" /\ op = "enroll"
              \/ rpc = "Up" /\ op = "connect"
              \/ rpc = "Down" /\ op = "disconnect"
              \/ rpc = "Logout" /\ op = "deregister"
            BY <2>6, <2>10 DEF ReceiveDone, StepsOf, Ops
        <3> QED
            BY <2>6, <3>1 DEF Effect, Done
    <2>11. CASE ReceiveRemoved
        <3>1. rpc = "RemoveProfile" /\ op = "remove"
            BY <2>6, <2>11 DEF ReceiveRemoved, StepsOf, Ops
        <3> QED
            BY <2>6, <3>1 DEF Effect, Done
    <2>12. ~Ensure /\ ~Validate /\ ~ReceiveActive /\ ~ReceiveDefault
        BY <2>3, <2>4 DEF Ensure, Validate, ReceiveActive, ReceiveDefault
    <2> QED
        BY <2>1, <2>5, <2>7, <2>8, <2>9, <2>10, <2>11, <2>12 DEF Receive
<1>2. IInv /\ [Next]_vars => [op # "none" /\ op' = "none" /\ result'.ok => Done(op)]_vars
    BY <1>1
<1> QED
    BY <1>2, Invariance, PTL DEF Spec, OkMeansDone

-----------------------------------------------------------------------------
(* 2. The monitor *)

USE MonitorAssumption

(* The watcher starts with a subscription and no failure. *)
LEMMA WatchStarts == WatchInit => WatchTypeOK /\ StreamInSight
<1> SUFFICES ASSUME WatchInit PROVE WatchTypeOK /\ StreamInSight
  OBVIOUS
<1>1. 0 \in 0..Retries + 1 /\ 0 \in 0..UpdateRoom /\ 0 \in 0..FailureRoom /\ 0 <= Retries
  OBVIOUS
<1>2. WatchTypeOK BY <1>1, Zenon DEF WatchInit, WatchTypeOK
<1>3. StreamInSight BY <1>1, Zenon DEF WatchInit, StreamInSight
<1> QED BY <1>2, <1>3

(* Types are kept: a channel is filled only where there is room, and the
   failures of the stream are counted up to one more than the retries. *)
LEMMA WatchTypeStep == WatchTypeOK /\ StreamInSight /\ [WatchNext]_watchVars => WatchTypeOK'
<1> SUFFICES ASSUME WatchTypeOK, StreamInSight, [WatchNext]_watchVars PROVE WatchTypeOK'
  OBVIOUS
<1> USE DEF WatchTypeOK, counters, channels, outside, timer
<1>1. CASE StatusAnswered BY <1>1 DEF StatusAnswered
<1>2. CASE StatusFails
  <2>1. failures' \in 0..FailureRoom BY <1>2, SMT DEF StatusFails, SendError
  <2>2. pc' \in {"select", "closed"} /\ stream' \in {stream, "none"}
        /\ retry' \in BOOLEAN /\ polled' \in BOOLEAN
    BY <1>2, Zenon DEF StatusFails, Return
  <2>3. UNCHANGED <<streamFailures, streamExhausted, wasUnavailable, updates, answering, cancelled>>
        /\ statusUnavailable' = TRUE
    BY <1>2, Zenon DEF StatusFails
  <2> QED BY <2>1, <2>2, <2>3, Zenon
<1>3. CASE SendSnapshot
  <2>1. updates' \in 0..UpdateRoom BY <1>3, SMT DEF SendSnapshot
  <2>2. 0 \in 0..Retries + 1 OBVIOUS
  <2>3. /\ stream' \in {stream, "opening"} /\ streamFailures' \in {streamFailures, 0}
        /\ streamExhausted' \in {streamExhausted, FALSE}
    BY <1>3, Zenon DEF SendSnapshot
  <2> QED BY <1>3, <2>1, <2>2, <2>3, Zenon DEF SendSnapshot
<1>4. CASE StopSending \/ WatchDone BY <1>4 DEF StopSending, WatchDone, Return
<1>5. CASE Poll \/ RetryTimer BY <1>5 DEF Poll, RetryTimer
<1>6. CASE Event \/ SendEvent BY <1>6 DEF Event, SendEvent
<1>7. CASE StreamRecovery
  <2>1. streamFailures <= Retries BY <1>7, Zenon DEF StreamRecovery, StreamInSight
  <2>2. streamFailures' \in 0..Retries + 1 BY <1>7, <2>1, SMT DEF StreamRecovery
  <2>3. failures' \in 0..FailureRoom BY <1>7, SMT DEF StreamRecovery, SendError
  <2>4. /\ stream' = "none" /\ retry' \in {retry, TRUE} /\ polled' \in {polled, FALSE}
        /\ streamExhausted' \in {streamExhausted, TRUE}
        /\ UNCHANGED <<pc, statusUnavailable, wasUnavailable, updates, answering, cancelled>>
    BY <1>7, Zenon DEF StreamRecovery, ForgetStream, GiveUp
  <2> QED BY <2>2, <2>3, <2>4, Zenon
<1>8. CASE Opens \/ Breaks BY <1>8 DEF Opens, Breaks
<1>9. CASE ReadUpdate \/ ReadFailure
  <2>1. updates' \in 0..UpdateRoom /\ failures' \in 0..FailureRoom
    BY <1>9, SMT DEF ReadUpdate, ReadFailure
  <2> QED BY <1>9, <2>1, Zenon DEF ReadUpdate, ReadFailure
<1>10. CASE DaemonChanges
  <2>1. answering' \in BOOLEAN
        /\ UNCHANGED <<pc, stream, retry, polled, streamFailures, streamExhausted,
                       statusUnavailable, wasUnavailable, updates, failures, cancelled>>
    BY <1>10, SMT DEF DaemonChanges
  <2> QED BY <2>1, Zenon
<1>12. CASE Cancel
  <2>1. cancelled' \in BOOLEAN
        /\ UNCHANGED <<pc, stream, retry, polled, streamFailures, streamExhausted,
                       statusUnavailable, wasUnavailable, updates, failures, answering>>
    BY <1>12, SMT DEF Cancel
  <2> QED BY <2>1, Zenon
<1>11. CASE UNCHANGED watchVars BY <1>11 DEF watchVars
<1> QED
  BY <1>1, <1>2, <1>3, <1>4, <1>5, <1>6, <1>7, <1>8, <1>9, <1>10, <1>11, <1>12
     DEF WatchNext, EmitStatus

(* Whoever lets go of the subscription, or of the timer, takes the next of the
   three hands: subscription, timer, resignation. *)
LEMMA InSightStep == WatchTypeOK /\ StreamInSight /\ [WatchNext]_watchVars => StreamInSight'
<1> SUFFICES ASSUME WatchTypeOK, StreamInSight, [WatchNext]_watchVars PROVE StreamInSight'
  OBVIOUS
<1> USE DEF WatchTypeOK, StreamInSight, counters, channels, outside, timer
<1>1. CASE StatusAnswered BY <1>1 DEF StatusAnswered
<1>2. CASE StatusFails BY <1>2 DEF StatusFails, Return
<1>3. CASE SendSnapshot BY <1>3 DEF SendSnapshot, Reopens
<1>4. CASE StopSending \/ WatchDone BY <1>4 DEF StopSending, WatchDone, Return
<1>5. CASE Poll \/ RetryTimer BY <1>5 DEF Poll, RetryTimer
<1>6. CASE Event \/ SendEvent BY <1>6 DEF Event, SendEvent
<1>7. CASE StreamRecovery
  BY <1>7 DEF StreamRecovery, ForgetStream, GiveUp, Exhausted
<1>8. CASE Opens \/ Breaks BY <1>8 DEF Opens, Breaks
<1>9. CASE ReadUpdate \/ ReadFailure \/ DaemonChanges \/ Cancel
  BY <1>9 DEF ReadUpdate, ReadFailure, DaemonChanges, Cancel
<1>10. CASE UNCHANGED watchVars BY <1>10 DEF watchVars
<1> QED
  BY <1>1, <1>2, <1>3, <1>4, <1>5, <1>6, <1>7, <1>8, <1>9, <1>10 DEF WatchNext, EmitStatus

(* The channels never hold more than their capacity, and the retries never
   outrun their list of delays. *)
THEOREM WatchTypeCorrect == WatchSpec => []WatchTypeOK
<1>1. WatchTypeOK /\ StreamInSight /\ [WatchNext]_watchVars => (WatchTypeOK /\ StreamInSight)'
  BY WatchTypeStep, InSightStep
<1> QED BY WatchStarts, <1>1, PTL DEF WatchSpec

(* Watch always has a subscription, a timer that leads to one, or has resigned
   after exactly its number of retries; and only one of them. *)
THEOREM StreamStaysInSight == WatchSpec => []StreamInSight
<1>1. WatchTypeOK /\ StreamInSight /\ [WatchNext]_watchVars => (WatchTypeOK /\ StreamInSight)'
  BY WatchTypeStep, InSightStep
<1> QED BY WatchStarts, <1>1, PTL DEF WatchSpec
=============================================================================
