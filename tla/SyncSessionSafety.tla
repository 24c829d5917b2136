------------------------- MODULE SyncSessionSafety -------------------------
(***************************************************************************)
(* Safety of SyncSession, for any databases, items, configurations,        *)
(* message sizes and faults: every variable keeps its type, the sessions   *)
(* speak in turns, each ends once and in order, and is silent from then    *)
(* on.                                                                     *)
(***************************************************************************)
EXTENDS SyncSessionProps, SequenceTheorems, FiniteSetTheorems, TLAPS

-----------------------------------------------------------------------------
(***************************************************************************)
(* Alert codes.                                                            *)
(***************************************************************************)
\* The mode of a received alert code has an alert code itself
LEMMA ModeOfType ==
    ASSUME NEW code \in SyncCodes
    PROVE  ModeOf(code) \in AlertMode
  BY DEF SyncCodes, ModeOf, AlertMode, SyncMode, Directions, Initiators, Types

\* A mode that has an alert code is announced with one: toSyncMLCode never
\* answers INVALID for the modes a target can be in
LEMMA ToSyncMLCodeType ==
    ASSUME NEW mode \in AlertMode
    PROVE  ToSyncMLCode(mode) \in SyncCodes
  BY DEF SyncCodes, ToSyncMLCode, OneWayCode, AlertMode, SyncMode, Directions,
         Initiators, Types

-----------------------------------------------------------------------------
(***************************************************************************)
(* Sequences, packages and messages.                                       *)
(***************************************************************************)
\* A list of elements of S is a sequence over S
LEMMA ListType ==
    ASSUME NEW S, NEW n \in Nat, NEW f \in [1..n -> S]
    PROVE  f \in Seq(S) /\ Len(f) = n /\ DOMAIN f = 1..n
  BY SeqDef

LEMMA SubSeqType ==
    ASSUME NEW S, NEW s \in Seq(S), NEW m \in Nat \ {0}, NEW n \in 0..Len(s)
    PROVE  SubSeq(s, m, n) \in Seq(S)
<1>1. \A i \in m..n : s[i] \in S
  BY ElementOfSeq, LenProperties
<1> QED
  BY <1>1, SubSeqProperties, LenProperties

\* The part of a package that is written and the part that is not are packages
LEMMA PartsType ==
    ASSUME NEW pkg \in Package, NEW ample, NEW first,
           NEW n \in Parts(pkg, ample, first)
    PROVE  /\ [pkg EXCEPT !.items = SubSeq(@, 1, n)] \in Package
           /\ Remainder(pkg, n) \in Package
<1>1. pkg \in [kind : {"Sync", "Map"}, db : Db, items : Seq(Item)]
  BY DEF Package, Parts
<1>2. n \in Nat /\ n <= Len(pkg.items)
  BY <1>1, LenProperties DEF Parts
<1>3. SubSeq(pkg.items, 1, n) \in Seq(Item)
  BY <1>1, <1>2, SubSeqType, LenProperties
<1>4. SubSeq(pkg.items, n + 1, Len(pkg.items)) \in Seq(Item)
  BY <1>1, <1>2, SubSeqType, LenProperties
<1> QED
  BY <1>1, <1>3, <1>4 DEF Remainder, Package

\* Cutting a queue of packages yields queues of packages
LEMMA CutsType ==
    ASSUME NEW pkgs \in Seq(Package), NEW ample, NEW cut \in Cuts(pkgs, ample)
    PROVE  cut.written \in Seq(Package) /\ cut.left \in Seq(Package)
<1>1. ASSUME NEW w \in 0..Len(pkgs), cut = CutAfter(pkgs, w)
      PROVE  cut.written \in Seq(Package) /\ cut.left \in Seq(Package)
  BY <1>1, SubSeqType, LenProperties DEF CutAfter
<1>2. ASSUME NEW w \in 0..Len(pkgs), w # Len(pkgs),
             NEW n \in Parts(pkgs[w + 1], ample, w = 0), cut = CutWithin(pkgs, w, n)
      PROVE  cut.written \in Seq(Package) /\ cut.left \in Seq(Package)
  <2>1. pkgs[w + 1] \in Package
    BY <1>2, ElementOfSeq, LenProperties
  <2>2. /\ [pkgs[w + 1] EXCEPT !.items = SubSeq(@, 1, n)] \in Package
        /\ Remainder(pkgs[w + 1], n) \in Package
    BY <2>1, PartsType
  <2>3. SubSeq(pkgs, 1, w) \in Seq(Package) /\ SubSeq(pkgs, w + 2, Len(pkgs)) \in Seq(Package)
    <3>1. CASE w + 2 <= Len(pkgs)
      BY <3>1, SubSeqType, LenProperties
    <3>2. CASE w + 2 > Len(pkgs)
      BY <1>2, <3>2, SubSeqType, LenProperties
    <3> QED
      BY <3>1, <3>2, LenProperties
  <2>4. <<Remainder(pkgs[w + 1], n)>> \in Seq(Package)
    BY <2>2
  <2> QED
    BY <1>2, <2>2, <2>3, <2>4, AppendProperties, ConcatProperties DEF CutWithin
<1>3. \/ \E w \in 0..Len(pkgs) : cut = CutAfter(pkgs, w)
      \/ \E w \in 0..Len(pkgs) : w # Len(pkgs) /\
            \E n \in Parts(pkgs[w + 1], ample, w = 0) : cut = CutWithin(pkgs, w, n)
  BY DEF Cuts
<1> QED
  BY <1>1, <1>2, <1>3

-----------------------------------------------------------------------------
(***************************************************************************)
(* Targets.                                                                *)
(***************************************************************************)
LEMMA NewTargetType ==
    ASSUME NEW db \in Db, NEW mode \in AlertMode
    PROVE  NewTarget(db, mode) \in Target
  BY DEF NewTarget, Target

LEMMA RevertType ==
    ASSUME NEW t \in Target
    PROVE  RevertSyncMode(t) \in Target
  BY DEF RevertSyncMode, ToSlowSync, Target, AlertMode, SyncMode, Types

LEMMA RefreshType ==
    ASSUME NEW t \in Target
    PROVE  RefreshOrRevert(t) \in Target
  BY RevertType DEF RefreshOrRevert, SetRefresh, Target, AlertMode, SyncMode, Types

\* What the two sides do to a mode leaves it one that has an alert code: reading it
\* from the wire, falling back to a slow sync, turning a sync that a server asked
\* for into one of the client's, and a revert or a refresh of a target, which would
\* have no code if both sides sent (SyncTarget::setRefreshFromClient).  The wire
\* format of SyncMode.cpp loses no code, and of a mode only that it is slow.
THEOREM ModesAnnounced ==
    /\ \A code \in SyncCodes : ModeOf(code) \in AlertMode /\ ToSyncMLCode(ModeOf(code)) = code
    /\ \A mode \in AlertMode :
           /\ ToSyncMLCode(mode) \in SyncCodes
           /\ \/ ModeOf(ToSyncMLCode(mode)) = mode
              \/ mode.type = "SLOW" /\ ModeOf(ToSyncMLCode(mode)) = [mode EXCEPT !.type = "FAST"]
           /\ {ToSlowSync(mode), ToClientInitiated(mode)} \subseteq AlertMode
    /\ \A t \in Target : {RevertSyncMode(t).mode, RefreshOrRevert(t).mode} \subseteq AlertMode
<1>1. \A code \in SyncCodes : ModeOf(code) \in AlertMode /\ ToSyncMLCode(ModeOf(code)) = code
  BY ModeOfType DEF SyncCodes, ToSyncMLCode, OneWayCode, ModeOf
<1>2. ASSUME NEW mode \in AlertMode
      PROVE  /\ ToSyncMLCode(mode) \in SyncCodes
             /\ \/ ModeOf(ToSyncMLCode(mode)) = mode
                \/ /\ mode.type = "SLOW"
                   /\ ModeOf(ToSyncMLCode(mode)) = [mode EXCEPT !.type = "FAST"]
  <2>1. /\ mode = [dir |-> mode.dir, init |-> mode.init, type |-> mode.type]
        /\ mode.dir \in Directions /\ mode.init \in Initiators /\ mode.type \in Types
        /\ mode.dir = "TWO_WAY" => mode.type # "REFRESH"
    BY DEF AlertMode, SyncMode
  <2> QED
    BY <2>1, ToSyncMLCodeType
       DEF ModeOf, ToSyncMLCode, OneWayCode, Directions, Initiators, Types
<1>3. ASSUME NEW mode \in AlertMode
      PROVE  {ToSlowSync(mode), ToClientInitiated(mode)} \subseteq AlertMode
  BY DEF AlertMode, SyncMode, ToSlowSync, ToClientInitiated, Initiators, Types
<1>4. ASSUME NEW t \in Target
      PROVE  {RevertSyncMode(t).mode, RefreshOrRevert(t).mode} \subseteq AlertMode
  BY RevertType, RefreshType DEF Target
<1> QED
  BY <1>1, <1>2, <1>3, <1>4

LEMMA DiscoverType ==
    ASSUME NEW p \in Party, NEW t \in Target
    PROVE  DiscoverLocalChanges(p, t) \in Target
<1>1. LocalChanges(p, t) \in Seq(Item)
  BY DataAssumption DEF LocalChanges, Target
<1> QED
  BY <1>1 DEF DiscoverLocalChanges, Target

LEMMA DiscoveredType ==
    ASSUME NEW tgts \in Seq(Target)
    PROVE  Discovered(tgts) \in Seq(Target)
<1>1. \A i \in DOMAIN tgts : tgts[i] \in Target
  BY ElementOfSeq, LenProperties
<1>2. \A i \in DOMAIN tgts : DiscoverLocalChanges(Client, tgts[i]) \in Target
  BY <1>1, DiscoverType DEF Party, Client
<1> QED
  BY <1>2, LenProperties, ListType DEF Discovered

\* The packages made of targets
LEMMA ChangesPackagesType ==
    ASSUME NEW tgts \in Seq(Target)
    PROVE  LocalChangesPackages(tgts) \in Seq(Package)
<1>1. \A i \in DOMAIN tgts : tgts[i] \in Target
  BY ElementOfSeq, LenProperties
<1>2. \A i \in DOMAIN tgts : Changes(tgts[i].db, tgts[i].changes) \in Package
  BY <1>1 DEF Target, Changes, Package
<1> QED
  BY <1>2, LenProperties, ListType DEF LocalChangesPackages

LEMMA AlertsType ==
    ASSUME NEW tgts \in Seq(Target)
    PROVE  InitializationAlerts(tgts) \in Seq(Package)
<1>1. \A i \in DOMAIN tgts : tgts[i] \in Target
  BY ElementOfSeq, LenProperties
<1>2. \A i \in DOMAIN tgts : ToSyncMLCode(tgts[i].mode) \in SyncCodes
  BY <1>1, ToSyncMLCodeType DEF Target
<1>3. \A i \in DOMAIN tgts : Alert(ToSyncMLCode(tgts[i].mode), tgts[i].db) \in Package
  BY <1>1, <1>2 DEF Target, Alert, Package
<1> QED
  BY <1>3, LenProperties, ListType DEF InitializationAlerts

LEMMA FinalType == <<FinalPackage>> \in Seq(Package)
  BY DEF FinalPackage, Package

LEMMA InitializationType ==
    ASSUME NEW tgts \in Seq(Target), NEW noInit \in BOOLEAN
    PROVE  InitializationPackages(tgts, noInit) \in Seq(Package)
<1>1. <<DevInf>> \in Seq(Package)
  BY DEF DevInf, Package
<1>2. (IF noInit THEN LocalChangesPackages(tgts) ELSE <<>>) \in Seq(Package)
  BY ChangesPackagesType
<1> QED
  BY <1>1, <1>2, AlertsType, FinalType, ConcatProperties DEF InitializationPackages

-----------------------------------------------------------------------------
(***************************************************************************)
(* The steps that actions are made of keep the types of what they change.  *)
(***************************************************************************)
LEMMA OtherType == \A p \in Party : Other(p) \in Party /\ Other(p) # p
  BY DEF Other, Party, Client, Server

LEMMA AddStatusesType ==
    ASSUME TypeOK, NEW p \in Party, NEW new \in Seq(Status), AddStatuses(p, new)
    PROVE  statuses' \in [Party -> Seq(Status)]
  BY ConcatProperties DEF TypeOK, AddStatuses

LEMMA AddPackagesType ==
    ASSUME TypeOK, NEW p \in Party, NEW new \in Seq(Package), AddPackages(p, new)
    PROVE  packages' \in [Party -> Seq(Package)]
  BY ConcatProperties DEF TypeOK, AddPackages

\* A status of a command is a status
LEMMA StatusType ==
    ASSUME NEW cmd \in Commands, NEW db \in Db \cup {NoDb}, NEW code \in Responses
    PROVE  <<StatusOf(cmd, db, code)>> \in Seq(Status)
  BY DEF StatusOf, Status

LEMMA ConsumeType ==
    ASSUME TypeOK, NEW p \in Party, fragments[p] # <<>>, Consume(p)
    PROVE  /\ processing' \in [Party -> BOOLEAN]
           /\ fragments' \in [Party -> Message]
           /\ last' \in [Party -> BOOLEAN]
  BY HeadTailProperties DEF TypeOK, Consume, Message

LEMMA HeadType ==
    ASSUME TypeOK, NEW p \in Party, fragments[p] # <<>>
    PROVE  Head(fragments[p]) \in Fragment
  BY HeadTailProperties DEF TypeOK, Message

\* A message is generated of statuses and packages
LEMMA GenerateType ==
    ASSUME TypeOK, NEW p \in Party, NEW k \in 0..Len(statuses[p]), NEW cut,
           cut.written \in Seq(Package), Generate(p, k, cut)
    PROVE  /\ net' \in [Party -> Seq(Message)]
           /\ statuses' \in [Party -> Seq(Status)]
<1>1. statuses[p] \in Seq(Status)
  BY DEF TypeOK
<1>2. SubSeq(statuses[p], 1, k) \in Seq(Status)
  BY <1>1, SubSeqType
<1>3. SubSeq(statuses[p], k + 1, Len(statuses[p])) \in Seq(Status)
  BY <1>1, SubSeqType, LenProperties
<1>4. /\ SubSeq(statuses[p], 1, k) \in Seq(Fragment)
      /\ cut.written \in Seq(Fragment)
      /\ <<Header>> \in Seq(Fragment)
  BY <1>2, SeqMonotonic DEF Fragment
<1>5. <<Header>> \o SubSeq(statuses[p], 1, k) \o cut.written \in Message
  BY <1>4, ConcatProperties DEF Message
<1> QED
  BY <1>3, <1>5, OtherType, AppendProperties DEF TypeOK, Generate

LEMMA ReceiveType ==
    ASSUME TypeOK, NEW p \in Party, Receive(p)
    PROVE  /\ armed' \in [Party -> BOOLEAN]
           /\ incoming' \in [Party -> Seq(Message)]
           /\ parsed' \in [Party -> Seq(Message)]
<1>1. CASE incoming[p] # <<>>
  <2>1. incoming[p][1] \in Message
    BY <1>1, ElementOfSeq, EmptySeq DEF TypeOK
  <2>2. Append(parsed[p], incoming[p][1]) \in Seq(Message)
    BY <2>1, AppendProperties DEF TypeOK
  <2>3. <<>> \in Seq(Message)
    BY EmptySeq
  <2> QED
    BY <1>1, <2>2, <2>3 DEF TypeOK, Receive
<1>2. CASE incoming[p] = <<>>
  BY <1>2 DEF TypeOK, Receive
<1> QED
  BY <1>1, <1>2

LEMMA SendableType ==
    ASSUME TypeOK, NEW p \in Party, NEW s \in Sendable(p)
    PROVE  /\ s.k \in 0..Len(statuses[p])
           /\ s.cut.written \in Seq(Package)
           /\ s.cut.left \in Seq(Package)
<1>1. targets[p] \in Seq(Target)
  BY DEF TypeOK
<1>2. \A i \in DOMAIN targets[p] : targets[p][i] \in Target
  BY <1>1, ElementOfSeq, LenProperties
<1>3. \A i \in DOMAIN targets[p] : Alert(NEXT_MESSAGE, targets[p][i].db) \in Package
  BY <1>2 DEF Target, Alert, Package
<1>4. NextMessageAlerts(p) \in Seq(Package)
  BY <1>1, <1>3, LenProperties, ListType DEF NextMessageAlerts
<1>5. Queue(p) \in Seq(Package)
  BY <1>4 DEF Queue, TypeOK
<1>6. /\ s.k \in 0..Len(statuses[p])
      /\ s.cut \in Cuts(Queue(p), Len(statuses[p]) <= cfg.room)
  BY DEF Sendable
<1> QED
  BY <1>5, <1>6, CutsType

LEMMA SendAndReceiveType ==
    ASSUME TypeOK, NEW p \in Party, SendAndReceive(p)
    PROVE  /\ net' \in [Party -> Seq(Message)]
           /\ statuses' \in [Party -> Seq(Status)]
           /\ packages' \in [Party -> Seq(Package)]
           /\ armed' \in [Party -> BOOLEAN]
           /\ incoming' \in [Party -> Seq(Message)]
           /\ parsed' \in [Party -> Seq(Message)]
<1>1. PICK s \in Sendable(p) :
          /\ Generate(p, s.k, s.cut)
          /\ packages' = [packages EXCEPT ![p] = s.cut.left]
  BY DEF SendAndReceive
<1>2. packages' \in [Party -> Seq(Package)]
  BY <1>1, SendableType DEF TypeOK
<1> QED
  BY <1>1, <1>2, SendableType, GenerateType, ReceiveType DEF SendAndReceive

LEMMA ExitSyncType ==
    ASSUME TypeOK, NEW p \in Party, ExitSync(p)
    PROVE  /\ sessionClosed' \in [Party -> BOOLEAN]
           /\ changeLog' \in [Party -> Seq(Seq(Target))]
           /\ packages' \in [Party -> Seq(Package)]
           /\ targets' \in [Party -> Seq(Target)]
<1>1. Append(changeLog[p], targets[p]) \in Seq(Seq(Target))
  BY AppendProperties DEF TypeOK
<1>2. <<>> \in Seq(Package) /\ <<>> \in Seq(Target)
  BY EmptySeq
<1>3. CASE sessionClosed[p]
  BY <1>3 DEF TypeOK, ExitSync
<1>4. CASE ~sessionClosed[p]
  <2>1. /\ sessionClosed' = [sessionClosed EXCEPT ![p] = TRUE]
        /\ \/ changeLog' = [changeLog EXCEPT ![p] = Append(@, targets[p])]
           \/ changeLog' = changeLog
        /\ packages' = [packages EXCEPT ![p] = <<>>]
        /\ targets' = [targets EXCEPT ![p] = <<>>]
    BY <1>4 DEF ExitSync
  <2> QED
    BY <1>1, <1>2, <2>1 DEF TypeOK
<1> QED
  BY <1>3, <1>4

LEMMA AbortSyncType ==
    ASSUME TypeOK, NEW p \in Party, NEW state \in SyncStates, AbortSync(p, state)
    PROVE  /\ syncState' \in [Party -> SyncStates]
           /\ syncFinished' \in [Party -> BOOLEAN]
           /\ sessionClosed' \in [Party -> BOOLEAN]
           /\ changeLog' \in [Party -> Seq(Seq(Target))]
           /\ packages' \in [Party -> Seq(Package)]
           /\ targets' \in [Party -> Seq(Target)]
  BY ExitSyncType DEF TypeOK, AbortSync

LEMMA FinishSyncType ==
    ASSUME TypeOK, NEW p \in Party, FinishSync(p)
    PROVE  /\ syncState' \in [Party -> SyncStates]
           /\ syncFinished' \in [Party -> BOOLEAN]
           /\ sessionClosed' \in [Party -> BOOLEAN]
           /\ changeLog' \in [Party -> Seq(Seq(Target))]
           /\ packages' \in [Party -> Seq(Package)]
           /\ targets' \in [Party -> Seq(Target)]
<1>1. "SYNC_FINISHED" \in SyncStates
  BY DEF SyncStates
<1> QED
  BY <1>1, ExitSyncType DEF TypeOK, FinishSync

\* Setting or aborting to a state
LEMMA SetSyncStateType ==
    ASSUME TypeOK, NEW p \in Party, NEW state \in SyncStates,
           SetSyncState(p, state) \/ AbortInMessage(p, state) \/ UNCHANGED control
    PROVE  /\ syncState' \in [Party -> SyncStates]
           /\ syncFinished' \in [Party -> BOOLEAN]
           /\ sessionClosed' \in [Party -> BOOLEAN]
  BY DEF TypeOK, SetSyncState, AbortInMessage, control

LEMMA LastErrorType ==
    ASSUME NEW p \in Party
    PROVE  LastError(p) \in SyncStates
  BY DEF LastError, SyncStates, ErrorStates

\* What a fragment of a kind is
LEMMA KindType ==
    ASSUME TypeOK, NEW p \in Party, NEW kind, Reading(p, kind)
    PROVE  /\ fragments[p] # <<>>
           /\ kind = "Status" => Head(fragments[p]) \in Status
           /\ kind = "Alert" =>
                 /\ Head(fragments[p]).db \in Db
                 /\ Head(fragments[p]).code \in SyncCodes \cup {NEXT_MESSAGE}
           /\ kind \in {"Sync", "Map"} =>
                 /\ Head(fragments[p]).db \in Db
                 /\ Head(fragments[p]).items \in Seq(Item)
<1>1. fragments[p] # <<>> /\ Head(fragments[p]).kind = kind
  BY DEF Reading
<1>2. Head(fragments[p]) \in {Header} \cup Status \cup Package
  BY <1>1, HeadType DEF Fragment
<1> QED
  BY <1>1, <1>2 DEF Header, Status, Package

-----------------------------------------------------------------------------
(***************************************************************************)
(* The actions of a session keep TypeOK.                                   *)
(***************************************************************************)
LEMMA TakeMessageType ==
    ASSUME TypeOK, NEW p \in Party, NEW isLast \in BOOLEAN, parsed[p] # <<>>,
           TakeMessage(p, isLast)
    PROVE  /\ processing' \in [Party -> BOOLEAN]
           /\ fragments' \in [Party -> Message]
           /\ last' \in [Party -> BOOLEAN]
           /\ parsed' \in [Party -> Seq(Message)]
<1>1. Head(parsed[p]) \in Message /\ Tail(parsed[p]) \in Seq(Message)
  BY HeadTailProperties DEF TypeOK
<1> QED
  BY <1>1 DEF TypeOK, TakeMessage

LEMMA BeginMessageType ==
    ASSUME TypeOK, NEW p \in Party, BeginMessage(p)
    PROVE  TypeOK'
  BY TakeMessageType DEF BeginMessage, TypeOK, control, peer, storage

LEMMA ServeRequestType ==
    ASSUME TypeOK, NEW p \in Party, ServeRequest(p)
    PROVE  TypeOK'
<1>1. "PREPARED" \in SyncStates
  BY DEF SyncStates, ProgressStates, InitStates
<1> QED
  BY <1>1, TakeMessageType, SetSyncStateType DEF ServeRequest, TypeOK, peer, storage

LEMMA HandleHeaderType ==
    ASSUME TypeOK, NEW p \in Party, HandleHeader(p)
    PROVE  TypeOK'
<1>1. <<StatusOf("SyncHdr", NoDb, "SUCCESS")>> \in Seq(Status)
  BY StatusType DEF Commands, Responses
<1> QED
  BY <1>1, KindType, AddStatusesType, ConsumeType
     DEF HandleHeader, TypeOK, control, peer, storage, link

\* The targets of a party are replaced one by one
LEMMA ReplaceType ==
    ASSUME TypeOK, NEW p \in Party, NEW f \in [DOMAIN targets[p] -> Target]
    PROVE  [targets EXCEPT ![p] = f] \in [Party -> Seq(Target)]
<1>1. targets[p] \in Seq(Target)
  BY DEF TypeOK
<1>2. f \in Seq(Target)
  BY <1>1, LenProperties, ListType
<1> QED
  BY <1>2 DEF TypeOK

LEMMA ElementType ==
    ASSUME TypeOK, NEW p \in Party
    PROVE  \A i \in DOMAIN targets[p] : targets[p][i] \in Target
<1>1. targets[p] \in Seq(Target)
  BY DEF TypeOK
<1> QED
  BY <1>1, ElementOfSeq, LenProperties

LEMMA HandleStatusType ==
    ASSUME TypeOK, NEW p \in Party, HandleStatus(p)
    PROVE  TypeOK'
<1> DEFINE status == Head(fragments[p])
           f == [i \in DOMAIN targets[p] |->
                    IF targets[p][i].db = status.db THEN RevertSyncMode(targets[p][i])
                    ELSE targets[p][i]]
<1>1. Reading(p, "Status") /\ Consume(p)
  BY DEF HandleStatus
<1>2. status \in Status
  BY <1>1, KindType
<1>3. cmdResp' \in [Party -> [filled : BOOLEAN, alert : Responses \cup {"none"}]]
  <2>1. cmdResp[p] \in [filled : BOOLEAN, alert : Responses \cup {"none"}]
    BY DEF TypeOK
  <2>2. [filled |-> TRUE,
         alert |-> IF status.cmd = "Alert" THEN status.code ELSE cmdResp[p].alert]
            \in [filled : BOOLEAN, alert : Responses \cup {"none"}]
    BY <1>2, <2>1 DEF Status
  <2> QED
    BY <2>2 DEF TypeOK, HandleStatus
<1>4. f \in [DOMAIN targets[p] -> Target]
  BY ElementType, RevertType
<1>5. [targets EXCEPT ![p] = f] \in [Party -> Seq(Target)]
  BY <1>4, ReplaceType
<1>6. targets' = [targets EXCEPT ![p] = f] \/ targets' = targets
  BY DEF HandleStatus, WithTarget
<1>7. targets' \in [Party -> Seq(Target)]
  BY <1>5, <1>6 DEF TypeOK
<1> QED
  BY <1>1, <1>3, <1>7, KindType, ConsumeType DEF HandleStatus, TypeOK, control, storage, link

LEMMA HandleDevInfType ==
    ASSUME TypeOK, NEW p \in Party, HandleDevInf(p)
    PROVE  TypeOK'
<1>1. <<StatusOf("Put", NoDb, "SUCCESS"), StatusOf("Get", NoDb, "SUCCESS")>> \in Seq(Status)
  BY DEF StatusOf, Status, Commands, Responses
<1>2. <<DevInfResults>> \in Seq(Package)
  BY DEF DevInfResults, Package
<1> QED
  BY <1>1, <1>2, KindType, AddStatusesType, AddPackagesType, ConsumeType
     DEF HandleDevInf, TypeOK, control, storage, link

LEMMA HandleResultsType ==
    ASSUME TypeOK, NEW p \in Party, HandleResults(p)
    PROVE  TypeOK'
<1>1. <<StatusOf("Results", NoDb, "SUCCESS")>> \in Seq(Status)
  BY StatusType DEF Commands, Responses
<1> QED
  BY <1>1, KindType, AddStatusesType, ConsumeType
     DEF HandleResults, TypeOK, control, storage, link

LEMMA HandleNextMessageAlertType ==
    ASSUME TypeOK, NEW p \in Party, HandleNextMessageAlert(p)
    PROVE  TypeOK'
<1>1. Reading(p, "Alert") /\ Consume(p)
  BY DEF HandleNextMessageAlert
<1>2. Head(fragments[p]).db \in Db
  BY <1>1, KindType
<1>3. <<StatusOf("Alert", Head(fragments[p]).db, "SUCCESS")>> \in Seq(Status)
  BY <1>2, StatusType DEF Commands, Responses
<1> QED
  BY <1>1, <1>3, KindType, AddStatusesType, ConsumeType
     DEF HandleNextMessageAlert, TypeOK, control, peer, storage, link

LEMMA HandleFinalElementType ==
    ASSUME TypeOK, NEW p \in Party, HandleFinalElement(p)
    PROVE  TypeOK'
<1>1. Tail(fragments[p]) \in Message
  BY HeadTailProperties DEF HandleFinalElement, Reading, TypeOK, Message
<1> QED
  BY <1>1 DEF HandleFinalElement, TypeOK, control, peer, storage, link

\* The statuses of a Sync element and of its items
LEMMA ItemStatusesType ==
    ASSUME NEW sync, sync.db \in Db, sync.items \in Seq(Item), NEW code \in Responses
    PROVE  ItemStatuses(sync, code) \in Seq(Status)
<1>1. <<StatusOf("Sync", sync.db, IF code = "ITEM_ADDED" THEN "SUCCESS" ELSE code)>>
         \in Seq(Status)
  BY StatusType DEF Commands, Responses
<1>2. StatusOf("Item", sync.db, code) \in Status
  BY DEF StatusOf, Status, Commands
<1>3. [i \in DOMAIN sync.items |-> StatusOf("Item", sync.db, code)] \in Seq(Status)
  BY <1>2, LenProperties, ListType
<1> QED
  BY <1>1, <1>3, ConcatProperties DEF ItemStatuses

LEMMA CommitSyncType ==
    ASSUME TypeOK, NEW p \in Party, NEW sync, sync.db \in Db, sync.items \in Seq(Item),
           CommitSync(p, sync)
    PROVE  /\ statuses' \in [Party -> Seq(Status)]
           /\ packages' \in [Party -> Seq(Package)]
           /\ targets' \in [Party -> Seq(Target)]
           /\ applied' \in [Party -> [Db -> Seq(Item)]]
<1> DEFINE Committed(t) == [DiscoverLocalChanges(p, t) EXCEPT !.mapped = @ \o sync.items]
           f == [i \in DOMAIN targets[p] |->
                    IF targets[p][i].db = sync.db THEN Committed(targets[p][i])
                    ELSE targets[p][i]]
<1>1. statuses' \in [Party -> Seq(Status)]
  <2>1. ItemStatuses(sync, "ITEM_ADDED") \in Seq(Status)
    BY ItemStatusesType DEF Responses
  <2> QED
    BY <2>1, AddStatusesType DEF CommitSync
<1>2. packages' \in [Party -> Seq(Package)]
  <2>1. <<Mappings(sync.db, sync.items)>> \in Seq(Package)
    BY DEF Mappings, Package
  <2> QED
    BY <2>1, AddPackagesType DEF CommitSync, TypeOK
<1>3. targets' \in [Party -> Seq(Target)]
  <2>1. ASSUME NEW t \in Target
        PROVE  Committed(t) \in Target
    <3>1. DiscoverLocalChanges(p, t) \in Target
      BY DiscoverType
    <3>2. DiscoverLocalChanges(p, t).mapped \o sync.items \in Seq(Item)
      BY <3>1, ConcatProperties DEF Target
    <3> QED
      BY <3>1, <3>2 DEF Target
  <2>2. f \in [DOMAIN targets[p] -> Target]
    BY <2>1, ElementType
  <2>3. targets' = [targets EXCEPT ![p] = f]
    BY DEF CommitSync, WithTarget
  <2> QED
    BY <2>2, <2>3, ReplaceType
<1>4. applied' \in [Party -> [Db -> Seq(Item)]]
  BY ConcatProperties DEF CommitSync, TypeOK
<1> QED
  BY <1>1, <1>2, <1>3, <1>4

LEMMA HandleSyncElementType ==
    ASSUME TypeOK, NEW p \in Party, NEW accepted, Reading(p, "Sync"),
           HandleSyncElement(p, accepted)
    PROVE  /\ statuses' \in [Party -> Seq(Status)]
           /\ packages' \in [Party -> Seq(Package)]
           /\ targets' \in [Party -> Seq(Target)]
           /\ applied' \in [Party -> [Db -> Seq(Item)]]
<1> DEFINE sync == Head(fragments[p])
<1>1. sync.db \in Db /\ sync.items \in Seq(Item)
  BY KindType
<1>2. \/ CommitSync(p, sync)
      \/ \E code \in {"COMMAND_NOT_ALLOWED", "NOT_FOUND", "COMMAND_FAILED"} :
            RejectSync(p, sync, code)
  BY DEF HandleSyncElement
<1>3. ASSUME NEW code \in Responses, RejectSync(p, sync, code)
      PROVE  /\ statuses' \in [Party -> Seq(Status)]
             /\ UNCHANGED <<packages, targets, applied>>
  BY <1>1, <1>3, ItemStatusesType, AddStatusesType DEF RejectSync
<1> HIDE DEF sync
<1> QED
  BY <1>1, <1>2, <1>3, CommitSyncType DEF Responses, TypeOK

-----------------------------------------------------------------------------
(***************************************************************************)
(* The actions of the client keep TypeOK.                                  *)
(***************************************************************************)
LEMMA ConfigType ==
    ASSUME TypeOK
    PROVE  /\ cfg.noInit \in BOOLEAN
           /\ cfg.mode \in AlertMode
           /\ ToSlowSync(cfg.mode) \in AlertMode
           /\ cfg.dbs \in Seq(Db)
<1>1. cfg \in Config
  BY ConfigAssumption DEF TypeOK
<1> QED
  BY <1>1 DEF Config, AlertMode, SyncMode, ToSlowSync, Types

LEMMA InitialTargetsType ==
    ASSUME TypeOK
    PROVE  InitialTargets \in Seq(Target)
<1> DEFINE mode == IF cfg.first THEN ToSlowSync(cfg.mode) ELSE cfg.mode
<1>1. \A i \in DOMAIN cfg.dbs : cfg.dbs[i] \in Db
  BY ConfigType, ElementOfSeq, LenProperties
<1>2. mode \in AlertMode
  BY ConfigType
<1>3. \A i \in DOMAIN cfg.dbs : NewTarget(cfg.dbs[i], mode) \in Target
  BY <1>1, <1>2, NewTargetType
<1> QED
  BY <1>3, ConfigType, LenProperties, ListType DEF InitialTargets

LEMMA InitiateClientSyncType ==
    ASSUME TypeOK, InitiateClientSync
    PROVE  TypeOK'
<1> DEFINE tgts == IF cfg.noInit THEN Discovered(InitialTargets) ELSE InitialTargets
           pkgs == InitializationPackages(tgts, cfg.noInit)
           state == IF cfg.noInit THEN "SENDING_ITEMS" ELSE "LOCAL_INIT"
<1>1. Client \in Party
  BY DEF Party
<1>2. tgts \in Seq(Target)
  BY InitialTargetsType, DiscoveredType
<1>3. pkgs \in Seq(Package)
  BY <1>2, ConfigType, InitializationType
<1>4. state \in SyncStates
  BY DEF SyncStates, ProgressStates, InitStates, ExchangeStates
<1>5. PICK cut \in Cuts(pkgs, TRUE) :
          /\ Generate(Client, 0, cut)
          /\ packages' = [packages EXCEPT ![Client] = cut.left]
  BY DEF InitiateClientSync
<1>6. /\ syncWithoutInit' = [syncWithoutInit EXCEPT ![Client] = cfg.noInit]
      /\ SetSyncState(Client, state)
      /\ targets' = [targets EXCEPT ![Client] = tgts]
      /\ Receive(Client)
      /\ UNCHANGED <<cfg, peer, reading, storage, faults>>
  BY DEF InitiateClientSync
<1> HIDE DEF tgts, pkgs, state
<1>7. cut.written \in Seq(Package) /\ cut.left \in Seq(Package)
  BY <1>3, CutsType
<1>8. 0 \in 0..Len(statuses[Client])
  BY <1>1, LenProperties DEF TypeOK
<1>9. /\ net' \in [Party -> Seq(Message)]
      /\ statuses' \in [Party -> Seq(Status)]
  BY <1>1, <1>5, <1>7, <1>8, GenerateType
<1>10. /\ packages' \in [Party -> Seq(Package)]
       /\ targets' \in [Party -> Seq(Target)]
       /\ syncWithoutInit' \in [Party -> BOOLEAN]
  BY <1>1, <1>2, <1>5, <1>6, <1>7, ConfigType DEF TypeOK
<1> QED
  BY <1>1, <1>4, <1>6, <1>9, <1>10, SetSyncStateType, ReceiveType
     DEF TypeOK, peer, reading, storage

LEMMA AcknowledgeByClientType ==
    ASSUME NEW t \in Target, NEW mode \in AlertMode
    PROVE  AcknowledgedByClient(t, mode) \in Target
<1>1. <<>> \in Seq(Item)
  BY EmptySeq
<1> QED
  BY <1>1, RevertType DEF AcknowledgedByClient, Target

LEMMA HandleClientAlertType ==
    ASSUME TypeOK, HandleClientAlert
    PROVE  TypeOK'
<1> DEFINE alert == Head(fragments[Client])
           mode == ModeOf(alert.code)
           f == [i \in DOMAIN targets[Client] |->
                    IF targets[Client][i].db = alert.db
                    THEN AcknowledgedByClient(targets[Client][i], mode)
                    ELSE targets[Client][i]]
<1>1. /\ Client \in Party
      /\ Reading(Client, "Alert")
      /\ alert.code \in SyncCodes
      /\ Consume(Client)
      /\ UNCHANGED <<cfg, syncWithoutInit, peer, packages, storage, link, faults>>
  BY DEF HandleClientAlert, Party
<1>2. alert.db \in Db /\ mode \in AlertMode
  BY <1>1, KindType, ModeOfType
<1>3. \A code \in Responses : <<StatusOf("Alert", alert.db, code)>> \in Seq(Status)
  BY <1>2, StatusType DEF Commands
<1>4. CASE SetupTargetByServer(alert) /\ UNCHANGED control
  <2>1. ToClientInitiated(mode) \in AlertMode
    BY <1>2 DEF ToClientInitiated, AlertMode, SyncMode, Initiators
  <2>2. NewTarget(alert.db, ToClientInitiated(mode)) \in Target
    BY <1>2, <2>1, NewTargetType
  <2>3. targets' \in [Party -> Seq(Target)]
    BY <1>1, <1>4, <2>2, AppendProperties DEF SetupTargetByServer, TypeOK
  <2>4. statuses' \in [Party -> Seq(Status)]
    BY <1>1, <1>3, <1>4, AddStatusesType DEF SetupTargetByServer, Responses
  <2> QED
    BY <1>1, <1>4, <2>3, <2>4, KindType, ConsumeType DEF TypeOK, control, peer, storage, link
<1>5. CASE AcknowledgeTargetOfClient(alert) /\ SetSyncState(Client, "REMOTE_INIT")
  <2>1. f \in [DOMAIN targets[Client] -> Target]
    BY <1>1, <1>2, ElementType, AcknowledgeByClientType
  <2>2. targets' = [targets EXCEPT ![Client] = f]
    BY <1>5 DEF AcknowledgeTargetOfClient, WithTarget
  <2>3. targets' \in [Party -> Seq(Target)]
    BY <1>1, <2>1, <2>2, ReplaceType
  <2>4. statuses' \in [Party -> Seq(Status)]
    BY <1>1, <1>3, <1>5, AddStatusesType DEF AcknowledgeTargetOfClient, Responses
  <2>5. "REMOTE_INIT" \in SyncStates
    BY DEF SyncStates, ProgressStates, InitStates
  <2> QED
    BY <1>1, <1>5, <2>3, <2>4, <2>5, KindType, ConsumeType, SetSyncStateType
       DEF TypeOK, peer, storage, link
<1>6. CASE /\ AddStatuses(Client, <<StatusOf("Alert", alert.db, "COMMAND_NOT_ALLOWED")>>)
           /\ UNCHANGED <<control, targets>>
  <2>1. statuses' \in [Party -> Seq(Status)]
    BY <1>1, <1>3, <1>6, AddStatusesType DEF Responses
  <2> QED
    BY <1>1, <1>6, <2>1, KindType, ConsumeType DEF TypeOK, control, peer, storage, link
<1> QED
  BY <1>4, <1>5, <1>6 DEF HandleClientAlert

LEMMA HandleClientSyncType ==
    ASSUME TypeOK, HandleClientSync
    PROVE  TypeOK'
<1>1. /\ Client \in Party
      /\ Reading(Client, "Sync")
      /\ HandleSyncElement(Client, ClientAcceptsSync)
      /\ SetSyncState(Client, "RECEIVING_ITEMS") \/ UNCHANGED control
      /\ Consume(Client)
      /\ UNCHANGED <<cfg, syncWithoutInit, peer, changeLog, link, faults>>
  BY DEF HandleClientSync, Party
<1>2. "RECEIVING_ITEMS" \in SyncStates
  BY DEF SyncStates, ProgressStates, ExchangeStates
<1> QED
  BY <1>1, <1>2, KindType, ConsumeType, HandleSyncElementType, SetSyncStateType
     DEF TypeOK, peer, link

\* The packages of mappings, and the Final package
LEMMA MappingListType ==
    ASSUME TypeOK, NEW list \in IF cfg.fastMaps THEN {<<>>} ELSE Ascending(Mapped)
    PROVE  [i \in DOMAIN list |-> Mappings(targets[Client][list[i]].db,
                                         targets[Client][list[i]].mapped)] \in Seq(Package)
<1>1. Client \in Party /\ targets[Client] \in Seq(Target)
  BY DEF Party, TypeOK
<1>2. \E n \in Nat : list \in [1..n -> DOMAIN targets[Client]]
  <2>1. CASE cfg.fastMaps
    <3>1. list \in [1..0 -> DOMAIN targets[Client]]
      BY <2>1
    <3> QED
      BY <3>1
  <2>2. CASE ~cfg.fastMaps
    <3>1. Mapped \subseteq 1..Len(targets[Client])
      BY <1>1, LenProperties DEF Mapped
    <3>2. IsFiniteSet(Mapped)
      <4>1. 1 \in Int /\ Len(targets[Client]) \in Int
        BY <1>1, LenProperties
      <4>2. IsFiniteSet(1..Len(targets[Client]))
        BY <4>1, FS_Interval
      <4> QED
        BY <3>1, <4>2, FS_Subset
    <3>3. Cardinality(Mapped) \in Nat
      BY <3>2, FS_CardinalityType
    <3>4. list \in [1..Cardinality(Mapped) -> Mapped]
      BY <2>2 DEF Ascending
    <3> QED
      BY <3>3, <3>4 DEF Mapped
  <2> QED
    BY <2>1, <2>2
<1>3. PICK n \in Nat : list \in [1..n -> DOMAIN targets[Client]]
  BY <1>2
<1>4. \A i \in 1..n : targets[Client][list[i]] \in Target
  BY <1>1, <1>3, ElementType
<1>5. \A i \in 1..n : Mappings(targets[Client][list[i]].db, targets[Client][list[i]].mapped)
                         \in Package
  BY <1>4 DEF Target, Mappings, Package
<1> QED
  BY <1>3, <1>5, ListType

LEMMA UpdateStatusType ==
    ASSUME TypeOK, NEW list \in IF cfg.fastMaps THEN {<<>>} ELSE Ascending(Mapped)
    PROVE  UpdateStatusPackages(list) \in Seq(Package)
  BY MappingListType, FinalType, ConcatProperties DEF UpdateStatusPackages

LEMMA HandleClientFinalType ==
    ASSUME TypeOK, HandleClientFinal
    PROVE  TypeOK'
<1>1. /\ Client \in Party
      /\ FinalHandled(Client)
      /\ UNCHANGED <<cfg, syncWithoutInit, peer, statuses, storage, link, faults>>
  BY DEF HandleClientFinal, Party
<1>2. targets[Client] \in Seq(Target)
  BY <1>1 DEF TypeOK
<1>3. /\ packages' \in [Party -> Seq(Package)]
      /\ targets' \in [Party -> Seq(Target)]
      /\ syncState' \in [Party -> SyncStates]
      /\ syncFinished' \in [Party -> BOOLEAN]
      /\ sessionClosed' \in [Party -> BOOLEAN]
  <2>1. {"LOCAL_INIT", "SENDING_ITEMS", "SENDING_MAPPINGS", "FINALIZING"} \subseteq SyncStates
    BY DEF SyncStates, ProgressStates, InitStates, ExchangeStates
  <2>2. CASE ClientFinalInit
    <3>1. InitializationPackages(targets[Client], FALSE) \in Seq(Package)
      BY <1>2, InitializationType
    <3> QED
      BY <1>1, <2>1, <2>2, <3>1, AddPackagesType, SetSyncStateType DEF ClientFinalInit, TypeOK
  <2>3. CASE ClientFinalModifications
    <3>1. Discovered(targets[Client]) \in Seq(Target)
      BY <1>2, DiscoveredType
    <3>2. LocalChangesPackages(Discovered(targets[Client])) \o <<FinalPackage>> \in Seq(Package)
      BY <3>1, ChangesPackagesType, FinalType, ConcatProperties
    <3>3. targets' \in [Party -> Seq(Target)]
      BY <1>1, <2>3, <3>1 DEF ClientFinalModifications, TypeOK
    <3> QED
      BY <1>1, <2>1, <2>3, <3>2, <3>3, AddPackagesType, SetSyncStateType
         DEF ClientFinalModifications
  <2>4. CASE ClientFinalUpdateStatus
    <3>1. PICK list \in IF cfg.fastMaps THEN {<<>>} ELSE Ascending(Mapped) :
              AddPackages(Client, UpdateStatusPackages(list))
      BY <2>4 DEF ClientFinalUpdateStatus
    <3>2. UpdateStatusPackages(list) \in Seq(Package)
      BY <3>1, UpdateStatusType
    <3> QED
      BY <1>1, <2>1, <2>4, <3>1, <3>2, AddPackagesType, SetSyncStateType
         DEF ClientFinalUpdateStatus, TypeOK
  <2>5. CASE ClientFinalLast
    BY <1>1, <2>1, <2>5, SetSyncStateType DEF ClientFinalLast, TypeOK
  <2>6. CASE ClientFinalUnexpected
    BY <1>1, <2>6, LastErrorType, SetSyncStateType DEF ClientFinalUnexpected, TypeOK
  <2> QED
    BY <2>2, <2>3, <2>4, <2>5, <2>6 DEF HandleClientFinal
<1> QED
  BY <1>1, <1>3 DEF TypeOK, FinalHandled, peer, storage, link

LEMMA EndIdleType ==
    ASSUME TypeOK, NEW p \in Party, EndIdle(p)
    PROVE  /\ sessionClosed' \in [Party -> BOOLEAN]
           /\ changeLog' \in [Party -> Seq(Seq(Target))]
           /\ packages' \in [Party -> Seq(Package)]
           /\ targets' \in [Party -> Seq(Target)]
           /\ UNCHANGED <<syncState, syncFinished, statuses, link>>
<1>1. ExitSync(p) \/ UNCHANGED <<sessionClosed, changeLog, packages, targets>>
  BY DEF EndIdle
<1>2. UNCHANGED <<syncState, syncFinished, statuses, link>>
  BY DEF EndIdle
<1> QED
  BY <1>1, <1>2, ExitSyncType DEF TypeOK

LEMMA EndOfClientMessageType ==
    ASSUME TypeOK, EndOfClientMessage
    PROVE  TypeOK'
<1>1. /\ Client \in Party
      /\ MessageHandled(Client)
      /\ UNCHANGED <<cfg, syncWithoutInit, peer, applied, faults>>
  BY DEF EndOfClientMessage, Party
<1>2. CASE SendAndReceive(Client) /\ UNCHANGED <<control, targets, changeLog>>
  BY <1>1, <1>2, SendAndReceiveType DEF TypeOK, MessageHandled, control, peer
<1>3. CASE FinishSync(Client) /\ UNCHANGED <<statuses, link>>
  BY <1>1, <1>3, FinishSyncType DEF TypeOK, MessageHandled, peer, link
<1>4. CASE EndIdle(Client)
  BY <1>1, <1>4, EndIdleType DEF TypeOK, MessageHandled, peer, link
<1> QED
  BY <1>2, <1>3, <1>4 DEF EndOfClientMessage

-----------------------------------------------------------------------------
(***************************************************************************)
(* The actions of the server keep TypeOK.                                  *)
(***************************************************************************)
LEMMA ServerAlertsType ==
    ASSUME TypeOK
    PROVE  ServerAlerts \in Seq(Package)
<1>1. ToSyncMLCode(cfg.mode) \in SyncCodes
  BY ConfigType, ToSyncMLCodeType
<1>2. \A i \in DOMAIN cfg.dbs : cfg.dbs[i] \in Db
  BY ConfigType, ElementOfSeq, LenProperties
<1>3. \A i \in DOMAIN cfg.dbs : Alert(ToSyncMLCode(cfg.mode), cfg.dbs[i]) \in Package
  BY <1>1, <1>2 DEF Alert, Package
<1> QED
  BY <1>3, ConfigType, LenProperties, ListType DEF ServerAlerts

LEMMA InitiateServerSyncType ==
    ASSUME TypeOK, InitiateServerSync
    PROVE  TypeOK'
<1> DEFINE pkgs == ServerAlerts \o <<FinalPackage>>
<1>1. Server \in Party
  BY DEF Party
<1>2. pkgs \in Seq(Package)
  BY ServerAlertsType, FinalType, ConcatProperties
<1>3. PICK cut \in Cuts(pkgs, TRUE) :
          /\ Generate(Server, 0, cut)
          /\ packages' = [packages EXCEPT ![Server] = cut.left]
  BY DEF InitiateServerSync
<1>4. /\ SetSyncState(Server, "PREPARED")
      /\ Receive(Server)
      /\ UNCHANGED <<cfg, peer, targets, reading, storage, faults>>
  BY DEF InitiateServerSync
<1> HIDE DEF pkgs
<1>5. cut.written \in Seq(Package) /\ cut.left \in Seq(Package)
  BY <1>2, CutsType
<1>6. 0 \in 0..Len(statuses[Server])
  BY <1>1, LenProperties DEF TypeOK
<1>7. /\ net' \in [Party -> Seq(Message)]
      /\ statuses' \in [Party -> Seq(Status)]
  BY <1>1, <1>3, <1>5, <1>6, GenerateType
<1>8. packages' \in [Party -> Seq(Package)]
  BY <1>1, <1>3, <1>5 DEF TypeOK
<1>9. "PREPARED" \in SyncStates
  BY DEF SyncStates, ProgressStates, InitStates
<1>10. syncWithoutInit' \in [Party -> BOOLEAN]
  BY ConfigType DEF InitiateServerSync, TypeOK
<1> QED
  BY <1>1, <1>4, <1>7, <1>8, <1>9, <1>10, SetSyncStateType, ReceiveType
     DEF TypeOK, peer, reading, storage

LEMMA SetupTargetByClientType ==
    ASSUME TypeOK, NEW alert, alert.db \in Db, alert.code \in SyncCodes,
           SetupTargetByClient(alert)
    PROVE  /\ statuses' \in [Party -> Seq(Status)]
           /\ targets' \in [Party -> Seq(Target)]
<1> DEFINE new == [NewTarget(alert.db, ModeOf(alert.code)) EXCEPT !.anchored = TRUE]
<1>1. Server \in Party
  BY DEF Party
<1>2. \A code \in Responses : <<StatusOf("Alert", alert.db, code)>> \in Seq(Status)
  BY StatusType DEF Commands
<1>3. TargetByClient(alert) \in Target
  <2>1. NewTarget(alert.db, ModeOf(alert.code)) \in Target
    BY ModeOfType, NewTargetType
  <2>2. new \in Target
    BY <2>1 DEF Target
  <2>3. TargetByClient(alert) \in {new, RefreshOrRevert(new), RevertSyncMode(new)}
    BY DEF TargetByClient
  <2> HIDE DEF new
  <2> QED
    BY <2>2, <2>3, RefreshType, RevertType
<1>4. \E code \in Responses : AddStatuses(Server, <<StatusOf("Alert", alert.db, code)>>)
  BY DEF SetupTargetByClient, Responses
<1>5. \/ targets' = targets
      \/ targets' = [targets EXCEPT ![Server] = Append(@, TargetByClient(alert))]
  BY DEF SetupTargetByClient
<1>6. Append(targets[Server], TargetByClient(alert)) \in Seq(Target)
  BY <1>1, <1>3, AppendProperties DEF TypeOK
<1>7. targets' \in [Party -> Seq(Target)]
  BY <1>1, <1>5, <1>6 DEF TypeOK
<1> QED
  BY <1>1, <1>2, <1>4, <1>7, AddStatusesType

LEMMA HandleServerAlertType ==
    ASSUME TypeOK, HandleServerAlert
    PROVE  TypeOK'
<1> DEFINE alert == Head(fragments[Server])
           f == [i \in DOMAIN targets[Server] |->
                    IF targets[Server][i].db = alert.db
                    THEN AcknowledgedByServer(targets[Server][i])
                    ELSE targets[Server][i]]
<1>1. /\ Server \in Party
      /\ Reading(Server, "Alert")
      /\ alert.code \in SyncCodes
      /\ Consume(Server)
      /\ UNCHANGED <<cfg, syncWithoutInit, peer, packages, storage, link, faults>>
  BY DEF HandleServerAlert, Party
<1>2. alert.db \in Db
  BY <1>1, KindType
<1>3. \A code \in Responses : <<StatusOf("Alert", alert.db, code)>> \in Seq(Status)
  BY <1>2, StatusType DEF Commands
<1>4. CASE SetupTargetByClient(alert) /\ SetSyncState(Server, "REMOTE_INIT")
  <2>1. "REMOTE_INIT" \in SyncStates
    BY DEF SyncStates, ProgressStates, InitStates
  <2>2. /\ statuses' \in [Party -> Seq(Status)]
        /\ targets' \in [Party -> Seq(Target)]
    BY <1>1, <1>2, <1>4, SetupTargetByClientType
  <2> QED
    BY <1>1, <1>4, <2>1, <2>2, KindType, ConsumeType, SetSyncStateType
       DEF TypeOK, peer, storage, link
<1>5. CASE AcknowledgeTargetOfServer(alert) /\ UNCHANGED control
  <2>1. ASSUME NEW t \in Target
        PROVE  AcknowledgedByServer(t) \in Target
    <3>1. <<>> \in Seq(Item)
      BY EmptySeq
    <3> QED
      BY <3>1, RevertType DEF AcknowledgedByServer, Target
  <2>2. f \in [DOMAIN targets[Server] -> Target]
    BY <1>1, <2>1, ElementType
  <2>3. targets' = [targets EXCEPT ![Server] = f]
    BY <1>5 DEF AcknowledgeTargetOfServer, WithTarget
  <2>4. targets' \in [Party -> Seq(Target)]
    BY <1>1, <2>2, <2>3, ReplaceType
  <2>5. statuses' \in [Party -> Seq(Status)]
    BY <1>1, <1>3, <1>5, AddStatusesType DEF AcknowledgeTargetOfServer, Responses
  <2> QED
    BY <1>1, <1>5, <2>4, <2>5, KindType, ConsumeType DEF TypeOK, control, peer, storage, link
<1>6. CASE /\ AddStatuses(Server, <<StatusOf("Alert", alert.db, "COMMAND_NOT_ALLOWED")>>)
           /\ UNCHANGED <<control, targets>>
  <2>1. statuses' \in [Party -> Seq(Status)]
    BY <1>1, <1>3, <1>6, AddStatusesType DEF Responses
  <2> QED
    BY <1>1, <1>6, <2>1, KindType, ConsumeType DEF TypeOK, control, peer, storage, link
<1> QED
  BY <1>4, <1>5, <1>6 DEF HandleServerAlert

LEMMA HandleServerSyncType ==
    ASSUME TypeOK, HandleServerSync
    PROVE  TypeOK'
<1>1. /\ Server \in Party
      /\ Reading(Server, "Sync")
      /\ HandleSyncElement(Server, ServerAcceptsSync)
      /\ syncWithoutInit' = [syncWithoutInit EXCEPT ![Server] = @ \/ SyncInInit]
      /\ SetSyncState(Server, "RECEIVING_ITEMS") \/ UNCHANGED control
      /\ Consume(Server)
      /\ UNCHANGED <<cfg, peer, changeLog, link, faults>>
  BY DEF HandleServerSync, Party
<1>2. "RECEIVING_ITEMS" \in SyncStates
  BY DEF SyncStates, ProgressStates, ExchangeStates
<1>3. syncWithoutInit' \in [Party -> BOOLEAN]
  BY <1>1 DEF TypeOK
<1> QED
  BY <1>1, <1>2, <1>3, KindType, ConsumeType, HandleSyncElementType, SetSyncStateType
     DEF TypeOK, peer, link

LEMMA HandleServerMapType ==
    ASSUME TypeOK, HandleServerMap
    PROVE  TypeOK'
<1> DEFINE map == Head(fragments[Server])
           f == [i \in DOMAIN targets[Server] |->
                    IF targets[Server][i].db = map.db
                    THEN [targets[Server][i] EXCEPT !.mapped = @ \o map.items]
                    ELSE targets[Server][i]]
<1>1. /\ Server \in Party
      /\ Reading(Server, "Map")
      /\ Consume(Server)
      /\ UNCHANGED <<cfg, syncWithoutInit, peer, packages, storage, link, faults>>
  BY DEF HandleServerMap, Party
<1>2. map.db \in Db /\ map.items \in Seq(Item)
  BY <1>1, KindType
<1>3. \A code \in Responses : <<StatusOf("Map", map.db, code)>> \in Seq(Status)
  BY <1>2, StatusType DEF Commands
<1>4. CASE AcceptMap(map)
  <2>1. ASSUME NEW t \in Target
        PROVE  [t EXCEPT !.mapped = @ \o map.items] \in Target
    BY <1>2, ConcatProperties DEF Target
  <2>2. f \in [DOMAIN targets[Server] -> Target]
    BY <1>1, <2>1, ElementType
  <2>3. targets' = [targets EXCEPT ![Server] = f]
    BY <1>4 DEF AcceptMap, WithTarget
  <2>4. targets' \in [Party -> Seq(Target)]
    BY <1>1, <2>2, <2>3, ReplaceType
  <2>5. statuses' \in [Party -> Seq(Status)]
    BY <1>1, <1>3, <1>4, AddStatusesType DEF AcceptMap, Responses
  <2>6. "RECEIVING_MAPPINGS" \in SyncStates
    BY DEF SyncStates, ProgressStates, ExchangeStates
  <2>7. SetSyncState(Server, "RECEIVING_MAPPINGS") \/ UNCHANGED control
    BY <1>4 DEF AcceptMap
  <2> QED
    BY <1>1, <2>4, <2>5, <2>6, <2>7, KindType, ConsumeType, SetSyncStateType
       DEF TypeOK, peer, storage, link
<1>5. CASE RejectMap(map)
  <2>1. statuses' \in [Party -> Seq(Status)]
    BY <1>1, <1>3, <1>5, AddStatusesType DEF RejectMap, Responses
  <2> QED
    BY <1>1, <1>5, <2>1, KindType, ConsumeType DEF RejectMap, TypeOK, control, peer, storage, link
<1> QED
  BY <1>4, <1>5 DEF HandleServerMap

LEMMA HandleServerFinalType ==
    ASSUME TypeOK, HandleServerFinal
    PROVE  TypeOK'
<1>1. /\ Server \in Party
      /\ FinalHandled(Server)
      /\ UNCHANGED <<cfg, syncWithoutInit, peer, statuses, targets, storage, link, faults>>
  BY DEF HandleServerFinal, Party
<1>2. targets[Server] \in Seq(Target)
  BY <1>1 DEF TypeOK
<1>3. /\ packages' \in [Party -> Seq(Package)]
      /\ syncState' \in [Party -> SyncStates]
      /\ syncFinished' \in [Party -> BOOLEAN]
      /\ sessionClosed' \in [Party -> BOOLEAN]
  <2>1. {"LOCAL_INIT", "SENDING_ITEMS", "FINALIZING"} \subseteq SyncStates
    BY DEF SyncStates, ProgressStates, InitStates, ExchangeStates
  <2>2. CASE ServerFinalInit
    <3>1. InitializationAlerts(targets[Server]) \o <<FinalPackage>> \in Seq(Package)
      BY <1>2, AlertsType, FinalType, ConcatProperties
    <3> QED
      BY <1>1, <2>1, <2>2, <3>1, AddPackagesType, SetSyncStateType DEF ServerFinalInit
  <2>3. CASE ServerFinalModifications
    <3>1. (IF syncWithoutInit[Server] THEN InitializationAlerts(targets[Server]) ELSE <<>>)
             \in Seq(Package)
      BY <1>2, AlertsType
    <3>2. ModificationPackages \in Seq(Package)
      BY <1>2, <3>1, ChangesPackagesType, FinalType, ConcatProperties
         DEF ModificationPackages
    <3> QED
      BY <1>1, <2>1, <2>3, <3>2, AddPackagesType, SetSyncStateType
         DEF ServerFinalModifications
  <2>4. CASE ServerFinalLast
    BY <1>1, <2>1, <2>4, FinalType, AddPackagesType, SetSyncStateType DEF ServerFinalLast
  <2>5. CASE ServerFinalEarly
    BY <2>5 DEF ServerFinalEarly, TypeOK, control
  <2>6. CASE ServerFinalUnexpected
    BY <1>1, <2>6, LastErrorType, SetSyncStateType DEF ServerFinalUnexpected, TypeOK
  <2> QED
    BY <2>2, <2>3, <2>4, <2>5, <2>6 DEF HandleServerFinal
<1> QED
  BY <1>1, <1>3 DEF TypeOK, FinalHandled, peer, storage, link

LEMMA EndOfServerMessageType ==
    ASSUME TypeOK, EndOfServerMessage
    PROVE  TypeOK'
<1>1. /\ Server \in Party
      /\ MessageHandled(Server)
      /\ UNCHANGED <<cfg, syncWithoutInit, peer, applied, faults>>
  BY DEF EndOfServerMessage, Party
<1>2. CASE SendAndReceive(Server) /\ UNCHANGED <<control, targets, changeLog>>
  BY <1>1, <1>2, SendAndReceiveType DEF TypeOK, MessageHandled, control, peer
<1>3. CASE SendLast
  <2>1. PICK s \in Sendable(Server) :
            /\ Generate(Server, s.k, s.cut)
            /\ \/ FinishSync(Server)
               \/ /\ packages' = [packages EXCEPT ![Server] = s.cut.left]
                  /\ UNCHANGED <<control, targets, changeLog>>
    BY <1>3 DEF SendLast
  <2>2. /\ net' \in [Party -> Seq(Message)]
        /\ statuses' \in [Party -> Seq(Status)]
    BY <1>1, <2>1, SendableType, GenerateType
  <2>3. UNCHANGED <<armed, incoming, parsed>>
    BY <1>3 DEF SendLast
  <2>4. CASE FinishSync(Server)
    BY <1>1, <2>2, <2>3, <2>4, FinishSyncType DEF TypeOK, MessageHandled, peer
  <2>5. CASE /\ packages' = [packages EXCEPT ![Server] = s.cut.left]
             /\ UNCHANGED <<control, targets, changeLog>>
    <3>1. packages' \in [Party -> Seq(Package)]
      BY <1>1, <2>1, <2>5, SendableType DEF TypeOK
    <3> QED
      BY <1>1, <2>2, <2>3, <2>5, <3>1 DEF TypeOK, MessageHandled, control, peer
  <2> QED
    BY <2>1, <2>4, <2>5
<1>4. CASE EndIdle(Server)
  BY <1>1, <1>4, EndIdleType DEF TypeOK, MessageHandled, peer, link
<1> QED
  BY <1>2, <1>3, <1>4 DEF EndOfServerMessage

-----------------------------------------------------------------------------
(***************************************************************************)
(* The transport and the faults keep TypeOK.                               *)
(***************************************************************************)
LEMMA DeliverType ==
    ASSUME TypeOK, NEW p \in Party, Deliver(p)
    PROVE  TypeOK'
<1>1. net[p] \in Seq(Message) /\ net[p] # <<>>
  BY DEF Deliver, TypeOK
<1>2. Head(net[p]) \in Message /\ Tail(net[p]) \in Seq(Message)
  BY <1>1, HeadTailProperties
<1>3. net' \in [Party -> Seq(Message)]
  BY <1>2 DEF Deliver, TypeOK
<1>4. /\ armed' \in [Party -> BOOLEAN]
      /\ parsed' \in [Party -> Seq(Message)]
      /\ incoming' \in [Party -> Seq(Message)]
  <2>1. Append(parsed[p], Head(net[p])) \in Seq(Message)
    BY <1>2, AppendProperties DEF TypeOK
  <2>2. <<Head(net[p])>> \in Seq(Message)
    BY <1>2
  <2> QED
    BY <2>1, <2>2 DEF Deliver, TypeOK
<1> QED
  BY <1>3, <1>4 DEF Deliver, TypeOK, control, peer, reading, storage

LEMMA FaultType ==
    ASSUME TypeOK, NEW kind, Fault(kind)
    PROVE  faults' \in 0..MaxFaults
  BY DataAssumption DEF TypeOK, Fault

\* Every state a fault ends a session in is a state
LEMMA FaultStatesType ==
    /\ ErrorStates \subseteq SyncStates
    /\ \A p \in Party : \A event \in {"invalid", "connection", "rejected", "sent"} :
          StateAfterEvent(p, event) \in SyncStates
<1>1. ErrorStates \subseteq SyncStates
  BY DEF SyncStates
<1>2. ASSUME NEW p \in Party
      PROVE  /\ StateAfterEvent(p, "invalid") \in ErrorStates
             /\ StateAfterEvent(p, "connection") \in ErrorStates
             /\ StateAfterEvent(p, "rejected") \in ErrorStates
             /\ StateAfterEvent(p, "sent") \in ErrorStates
  BY DEF StateAfterEvent, ErrorStates
<1> QED
  BY <1>1, <1>2

LEMMA EnvironmentType ==
    ASSUME TypeOK, Environment
    PROVE  TypeOK'
<1>1. ASSUME NEW p \in Party, LoseMessage(p)
      PROVE  TypeOK'
  <2>1. Tail(net[p]) \in Seq(Message)
    BY <1>1, HeadTailProperties DEF LoseMessage, TypeOK
  <2> QED
    BY <1>1, <2>1, FaultType DEF LoseMessage, TypeOK, control, peer, reading, storage
<1>2. ASSUME NEW p \in Party, GarbledMessage(p)
      PROVE  TypeOK'
  <2>1. Tail(net[p]) \in Seq(Message)
    BY <1>2, HeadTailProperties DEF GarbledMessage, TypeOK
  <2>2. "INVALID_SYNCML_MESSAGE" \in SyncStates
    BY FaultStatesType DEF ErrorStates
  <2> QED
    BY <1>2, <2>1, <2>2, FaultType, AbortSyncType DEF GarbledMessage, TypeOK, peer, reading
<1>3. ASSUME NEW p \in Party, UserAbort(p)
      PROVE  TypeOK'
  <2>1. "ABORTED" \in SyncStates
    BY FaultStatesType DEF ErrorStates
  <2> QED
    BY <1>3, <2>1, FaultType, AbortSyncType DEF UserAbort, TypeOK, peer, reading, link
<1>4. ASSUME NEW p \in Party, NEW event \in {"invalid", "connection", "rejected", "sent"},
             SetTransportStatus(p, event)
      PROVE  TypeOK'
  BY <1>4, FaultType, FaultStatesType, AbortSyncType
     DEF SetTransportStatus, TypeOK, peer, reading, link
<1>5. ASSUME NEW state \in {"INTERNAL_ERROR", "DATABASE_FAILURE", "CONNECTION_ERROR"},
             StartupFailure(state)
      PROVE  TypeOK'
  <2>1. cfg.mode.init \in Party
    BY ConfigType DEF AlertMode, SyncMode, Initiators, Party, Client, Server
  <2>2. state \in SyncStates
    BY FaultStatesType DEF ErrorStates
  <2> QED
    BY <1>5, <2>1, <2>2, FaultType, AbortSyncType DEF StartupFailure, TypeOK, peer, reading, link
<1> QED
  BY <1>1, <1>2, <1>3, <1>4, <1>5 DEF Environment

LEMMA NextType ==
    ASSUME TypeOK, [Next]_vars
    PROVE  TypeOK'
<1>1. ASSUME NEW p \in Party, Process(p) \/ Deliver(p)
      PROVE  TypeOK'
  BY <1>1, BeginMessageType, ServeRequestType, HandleHeaderType, HandleStatusType,
     HandleDevInfType, HandleResultsType, HandleNextMessageAlertType,
     HandleFinalElementType, DeliverType DEF Process
<1>2. CASE ClientStep
  BY <1>2, InitiateClientSyncType, HandleClientAlertType, HandleClientSyncType,
     HandleClientFinalType, EndOfClientMessageType DEF ClientStep
<1>3. CASE ServerStep
  BY <1>3, InitiateServerSyncType, HandleServerAlertType, HandleServerSyncType,
     HandleServerMapType, HandleServerFinalType, EndOfServerMessageType DEF ServerStep
<1>4. CASE Environment
  BY <1>4, EnvironmentType
<1>5. CASE UNCHANGED vars
  BY <1>5 DEF TypeOK, vars
<1> QED
  BY <1>1, <1>2, <1>3, <1>4, <1>5 DEF Next, Progress

-----------------------------------------------------------------------------
\* Whatever the two sessions and their environment do, each variable keeps its
\* type; in particular every alert code sent is one that SyncML has, and no
\* target ever is in a two-way refresh
THEOREM TypeCorrect == Spec => []TypeOK
<1>1. Init => TypeOK
  <2> SUFFICES ASSUME Init PROVE TypeOK
    OBVIOUS
  <2>1. "NOT_PREPARED" \in SyncStates
    BY DEF SyncStates
  <2>2. \A S : <<>> \in Seq(S)
    BY EmptySeq
  <2> QED
    BY <2>1, <2>2, DataAssumption DEF Init, TypeOK, Message
<1>2. TypeOK /\ [Next]_vars => TypeOK'
  BY NextType
<1> QED
  BY <1>1, <1>2, PTL DEF Spec

-----------------------------------------------------------------------------
(***************************************************************************)
(* Speaking in turns.  HalfDuplex is not inductive: an initiator could     *)
(* send its first message while there is another one.  It does so only in  *)
(* the state it starts in, before which there is no message at all.        *)
(***************************************************************************)
Traffic == Load(Client) + Load(Server)

Unstarted == syncState[cfg.mode.init] = "NOT_PREPARED"

Turns ==
    /\ Traffic <= 1
    /\ Unstarted => Traffic = 0

LEMMA LoadType ==
    ASSUME TypeOK
    PROVE  /\ \A p \in Party : /\ Len(net[p]) \in Nat
                               /\ Len(incoming[p]) \in Nat
                               /\ Len(parsed[p]) \in Nat
                               /\ InHand(p) \in Nat
                               /\ Load(p) \in Nat
           /\ Traffic \in Nat
<1>1. \A p \in Party : /\ Len(net[p]) \in Nat
                        /\ Len(incoming[p]) \in Nat
                        /\ Len(parsed[p]) \in Nat
  BY LenProperties DEF TypeOK
<1>2. \A p \in Party : InHand(p) \in Nat
  BY DEF InHand
<1>3. \A p \in Party : Load(p) \in Nat
  BY DEF TypeOK, Load, InHand
<1> QED
  BY <1>1, <1>2, <1>3 DEF Traffic, Party

\* A step that neither moves messages nor begins or ends the processing of one
LEMMA SameTraffic ==
    ASSUME UNCHANGED <<processing, link>>
    PROVE  Traffic' = Traffic
  BY DEF link, Traffic, Load, InHand

LEMMA TakeMessageTraffic ==
    ASSUME TypeOK, NEW p \in Party, NEW isLast \in BOOLEAN, parsed[p] # <<>>,
           TakeMessage(p, isLast), UNCHANGED <<incoming, net>>
    PROVE  Traffic' <= Traffic
<1>1. Len(parsed'[p]) = Len(parsed[p]) - 1
  BY HeadTailProperties DEF TypeOK, TakeMessage
<1>2. InHand(p) >= 0 /\ InHand(p)' = 1
  BY DEF TypeOK, TakeMessage, InHand
<1>3. Load(p)' <= Load(p) /\ Load(p)' \in Int
  <2> DEFINE a == Len(net[p])   b == Len(incoming[p])   c == Len(parsed[p])   d == InHand(p)
             c2 == Len(parsed'[p])
  <2>1. a \in Nat /\ b \in Nat /\ c \in Nat /\ d \in Nat /\ c2 = c - 1
    BY <1>1, LoadType
  <2>2. Load(p) = a + b + c + d /\ Load(p)' = a + b + c2 + 1
    BY <1>2 DEF Load
  <2> HIDE DEF a, b, c, d, c2
  <2> QED
    BY <2>1, <2>2
<1>4. \A q \in Party \ {p} : Load(q)' = Load(q)
  BY DEF TypeOK, TakeMessage, Load, InHand
<1> QED
  BY <1>3, <1>4, LoadType DEF Traffic, Party

\* A party sends: one more message on its way to the other party
LEMMA GenerateTraffic ==
    ASSUME TypeOK, NEW p \in Party, NEW k \in 0..Len(statuses[p]), NEW cut,
           cut.written \in Seq(Package), Generate(p, k, cut)
    PROVE  /\ Len(net'[Other(p)]) = Len(net[Other(p)]) + 1
           /\ net'[p] = net[p]
<1> DEFINE message == <<Header>> \o SubSeq(statuses[p], 1, k) \o cut.written
<1>1. net' = [net EXCEPT ![Other(p)] = Append(@, message)]
  BY DEF Generate
<1>2. net[Other(p)] \in Seq(Message) /\ net'[Other(p)] \in Seq(Message)
  BY OtherType, GenerateType DEF TypeOK
<1>3. net'[Other(p)] = Append(net[Other(p)], message)
  BY <1>1, OtherType DEF TypeOK
<1> HIDE DEF message
<1>4. Len(net'[Other(p)]) = Len(net[Other(p)]) + 1
  BY <1>2, <1>3, LenProperties
<1> QED
  BY <1>1, <1>4, OtherType DEF TypeOK

\* receive() finds a message or waits for one
LEMMA ReceiveTraffic ==
    ASSUME TypeOK, NEW p \in Party, Receive(p)
    PROVE  /\ Len(parsed'[p]) + Len(incoming'[p]) <= Len(parsed[p]) + Len(incoming[p])
           /\ \A q \in Party \ {p} : parsed'[q] = parsed[q] /\ incoming'[q] = incoming[q]
<1>1. CASE incoming[p] # <<>>
  <2>1. incoming[p][1] \in Message /\ Len(incoming[p]) >= 1
    BY <1>1, ElementOfSeq, EmptySeq DEF TypeOK
  <2>2. Len(Append(parsed[p], incoming[p][1])) = Len(parsed[p]) + 1
    BY <2>1, AppendProperties DEF TypeOK
  <2>3. Len(<<>>) = 0
    BY EmptySeq
  <2> QED
    BY <1>1, <2>1, <2>2, <2>3, LoadType DEF TypeOK, Receive
<1>2. CASE incoming[p] = <<>>
  BY <1>2, LoadType DEF TypeOK, Receive
<1> QED
  BY <1>1, <1>2

\* A party that is sent a message has one more to deal with
LEMMA LoadGrows ==
    ASSUME TypeOK, NEW p \in Party, Len(net'[p]) = Len(net[p]) + 1,
           parsed'[p] = parsed[p], incoming'[p] = incoming[p], InHand(p)' = InHand(p)
    PROVE  Load(p)' \in Nat /\ Load(p)' <= Load(p) + 1
<1> DEFINE a == Len(net[p])   a2 == Len(net'[p])
           b == Len(incoming[p])
           c == Len(parsed[p])
           d == InHand(p)
<1>1. a \in Nat /\ b \in Nat /\ c \in Nat /\ d \in Nat /\ a2 = a + 1
  BY LoadType
<1>2. Load(p) = a + b + c + d /\ Load(p)' = a2 + b + c + d
  BY DEF Load
<1> HIDE DEF a, b, c, d, a2
<1> QED
  BY <1>1, <1>2

\* A party that is done with a message has one less to deal with
LEMMA LoadShrinks ==
    ASSUME TypeOK, NEW p \in Party, net'[p] = net[p],
           Len(parsed'[p]) + Len(incoming'[p]) <= Len(parsed[p]) + Len(incoming[p]),
           Len(parsed'[p]) \in Nat, Len(incoming'[p]) \in Nat,
           InHand(p) = 1, InHand(p)' = 0
    PROVE  Load(p)' \in Nat /\ Load(p)' <= Load(p) - 1
<1> DEFINE a == Len(net[p])
           b == Len(incoming[p])   b2 == Len(incoming'[p])
           c == Len(parsed[p])   c2 == Len(parsed'[p])
<1>1. /\ a \in Nat /\ b \in Nat /\ c \in Nat /\ b2 \in Nat /\ c2 \in Nat
      /\ c2 + b2 <= c + b
  BY LoadType
<1>2. Load(p) = a + b + c + 1 /\ Load(p)' = a + b2 + c2 + 0
  BY DEF Load
<1> HIDE DEF a, b, c, b2, c2
<1> QED
  BY <1>1, <1>2

\* A message that leaves the network goes no further than the transport
LEMMA LoadMoves ==
    ASSUME TypeOK, NEW p \in Party, net[p] # <<>>, net' = [net EXCEPT ![p] = Tail(@)],
           Len(parsed'[p]) + Len(incoming'[p]) <= Len(parsed[p]) + Len(incoming[p]) + 1,
           Len(parsed'[p]) \in Nat, Len(incoming'[p]) \in Nat, InHand(p)' = InHand(p)
    PROVE  Load(p)' \in Nat /\ Load(p)' <= Load(p)
<1> DEFINE a == Len(net[p])   a2 == Len(net'[p])
           b == Len(incoming[p])   b2 == Len(incoming'[p])
           c == Len(parsed[p])   c2 == Len(parsed'[p])
           d == InHand(p)
<1>1. net[p] \in Seq(Message) /\ net'[p] = Tail(net[p])
  BY DEF TypeOK
<1>2. a2 = a - 1 /\ a2 \in Nat
  <2>1. Tail(net[p]) \in Seq(Message) /\ Len(Tail(net[p])) = Len(net[p]) - 1
    BY <1>1, HeadTailProperties
  <2> QED
    BY <1>1, <2>1, LenProperties
<1>3. /\ a \in Nat /\ b \in Nat /\ c \in Nat /\ d \in Nat /\ b2 \in Nat /\ c2 \in Nat
      /\ c2 + b2 <= c + b + 1
  BY LoadType
<1>4. Load(p) = a + b + c + d /\ Load(p)' = a2 + b2 + c2 + d
  BY DEF Load
<1> HIDE DEF a, b, c, d, a2, b2, c2
<1> QED
  BY <1>2, <1>3, <1>4

\* What one of them has less the other may have more
LEMMA TrafficMoves ==
    ASSUME TypeOK, NEW p \in Party,
           Load(p)' \in Nat, Load(p)' <= Load(p) - 1,
           Load(Other(p))' \in Nat, Load(Other(p))' <= Load(Other(p)) + 1
    PROVE  Traffic' <= Traffic
<1> DEFINE a == Load(Client)
           b == Load(Server)
           a2 == Load(Client)'
           b2 == Load(Server)'
<1>1. a \in Nat /\ b \in Nat
  BY LoadType DEF Party
<1>2. Traffic = a + b /\ Traffic' = a2 + b2
  BY DEF Traffic
<1>3. \/ /\ p = Client /\ a2 \in Nat /\ b2 \in Nat /\ a2 <= a - 1 /\ b2 <= b + 1
      \/ /\ p = Server /\ a2 \in Nat /\ b2 \in Nat /\ b2 <= b - 1 /\ a2 <= a + 1
  BY DEF Party, Other, Client, Server
<1> HIDE DEF a, b, a2, b2
<1> QED
  BY <1>1, <1>2, <1>3

\* The answer of a party takes the place of the message that it answers
LEMMA AnswerTraffic ==
    ASSUME TypeOK, NEW p \in Party, processing[p], MessageHandled(p),
           Len(net'[Other(p)]) = Len(net[Other(p)]) + 1, net'[p] = net[p],
           Receive(p) \/ UNCHANGED <<incoming, parsed>>
    PROVE  Traffic' <= Traffic
<1>1. InHand(p) = 1 /\ InHand(p)' = 0 /\ InHand(Other(p))' = InHand(Other(p))
  BY OtherType DEF MessageHandled, TypeOK, InHand
<1>2. CASE Receive(p)
  <2>1. /\ Len(parsed'[p]) + Len(incoming'[p]) <= Len(parsed[p]) + Len(incoming[p])
        /\ parsed'[Other(p)] = parsed[Other(p)]
        /\ incoming'[Other(p)] = incoming[Other(p)]
    BY <1>2, ReceiveTraffic, OtherType
  <2>2. Len(parsed'[p]) \in Nat /\ Len(incoming'[p]) \in Nat
    BY <1>2, ReceiveType, LenProperties
  <2>3. Load(p)' \in Nat /\ Load(p)' <= Load(p) - 1
    BY <1>1, <2>1, <2>2, LoadShrinks
  <2>4. Load(Other(p))' \in Nat /\ Load(Other(p))' <= Load(Other(p)) + 1
    BY <1>1, <2>1, OtherType, LoadGrows
  <2> QED
    BY <2>3, <2>4, TrafficMoves
<1>3. CASE UNCHANGED <<incoming, parsed>>
  <2>1. Load(p)' \in Nat /\ Load(p)' <= Load(p) - 1
    BY <1>1, <1>3, LoadType, LoadShrinks
  <2>2. Load(Other(p))' \in Nat /\ Load(Other(p))' <= Load(Other(p)) + 1
    BY <1>1, <1>3, OtherType, LoadGrows
  <2> QED
    BY <2>1, <2>2, TrafficMoves
<1> QED
  BY <1>2, <1>3

\* The first message of a session
LEMMA InitiateTraffic ==
    ASSUME TypeOK, NEW p \in Party, Traffic = 0, UNCHANGED processing,
           Len(net'[Other(p)]) = Len(net[Other(p)]) + 1, net'[p] = net[p], Receive(p)
    PROVE  Traffic' <= 1
<1>1. /\ Len(parsed'[p]) + Len(incoming'[p]) <= Len(parsed[p]) + Len(incoming[p])
      /\ parsed'[Other(p)] = parsed[Other(p)]
      /\ incoming'[Other(p)] = incoming[Other(p)]
  BY ReceiveTraffic, OtherType
<1>2. \A q \in Party : Load(q) = 0
  BY LoadType DEF Traffic, Party
<1>3. Load(Other(p))' \in Nat /\ Load(Other(p))' <= 1
  <2>1. InHand(Other(p))' = InHand(Other(p))
    BY DEF InHand
  <2> QED
    BY <1>1, <1>2, <2>1, OtherType, LoadGrows
<1>4. Load(p)' = 0
  <2> DEFINE a == Len(net[p])
             b == Len(incoming[p])   b2 == Len(incoming'[p])
             c == Len(parsed[p])   c2 == Len(parsed'[p])
             d == InHand(p)
  <2>1. /\ a \in Nat /\ b \in Nat /\ c \in Nat /\ d \in Nat /\ b2 \in Nat /\ c2 \in Nat
        /\ c2 + b2 <= c + b
    BY <1>1, LoadType, ReceiveType, LenProperties
  <2>2. a + b + c + d = 0 /\ Load(p)' = a + b2 + c2 + d
    BY <1>2 DEF Load, InHand
  <2> HIDE DEF a, b, c, d, b2, c2
  <2> QED
    BY <2>1, <2>2
<1> QED
  BY <1>3, <1>4 DEF Traffic, Other, Party, Client, Server

\* A message that leaves the network for one party changes nothing for the other
LEMMA LeaveTraffic ==
    ASSUME TypeOK, NEW p \in Party, UNCHANGED processing,
           net[p] # <<>>, net' = [net EXCEPT ![p] = Tail(@)],
           \/ UNCHANGED <<incoming, parsed>>
           \/ parsed' = [parsed EXCEPT ![p] = Append(@, Head(net[p]))] /\ UNCHANGED incoming
           \/ incoming' = [incoming EXCEPT ![p] = <<Head(net[p])>>] /\ UNCHANGED parsed
    PROVE  Traffic' <= Traffic
<1> DEFINE b == Len(incoming[p])   b2 == Len(incoming'[p])
           c == Len(parsed[p])   c2 == Len(parsed'[p])
<1>1. net[p] \in Seq(Message) /\ Head(net[p]) \in Message
  BY HeadTailProperties DEF TypeOK
<1>2. b \in Nat /\ c \in Nat
  BY LoadType
<1>3. (b2 = b /\ c2 = c) \/ (b2 = b /\ c2 = c + 1) \/ (b2 = 1 /\ c2 = c)
  <2>1. CASE UNCHANGED <<incoming, parsed>>
    BY <2>1
  <2>2. CASE parsed' = [parsed EXCEPT ![p] = Append(@, Head(net[p]))] /\ UNCHANGED incoming
    <3>1. parsed'[p] = Append(parsed[p], Head(net[p])) /\ parsed[p] \in Seq(Message)
      BY <2>2 DEF TypeOK
    <3>2. Len(parsed'[p]) = Len(parsed[p]) + 1
      BY <1>1, <3>1, AppendProperties
    <3> QED
      BY <2>2, <3>2
  <2>3. CASE incoming' = [incoming EXCEPT ![p] = <<Head(net[p])>>] /\ UNCHANGED parsed
    <3>1. Len(incoming'[p]) = 1
      BY <2>3 DEF TypeOK
    <3> QED
      BY <2>3, <3>1
  <2> QED
    BY <2>1, <2>2, <2>3
<1>4. b2 \in Nat /\ c2 \in Nat /\ c2 + b2 <= c + b + 1
  <2> HIDE DEF b, c, b2, c2
  <2> QED
    BY <1>2, <1>3
<1>5. Load(p)' <= Load(p) /\ Load(p)' \in Nat
  BY <1>4, LoadMoves DEF InHand
<1>6. Load(Other(p))' = Load(Other(p))
  BY OtherType DEF Load, InHand, TypeOK
<1> QED
  BY <1>5, <1>6, LoadType, OtherType DEF Traffic, Other, Party, Client, Server

-----------------------------------------------------------------------------
(***************************************************************************)
(* A session that was started is never again in the state before.          *)
(***************************************************************************)
StaysStarted ==
    \A q \in Party : syncState'[q] = "NOT_PREPARED" => syncState[q] = "NOT_PREPARED"

\* A state is set or aborted to
LEMMA SetStaysStarted ==
    ASSUME TypeOK, NEW p \in Party, NEW state, state # "NOT_PREPARED",
           \/ SetSyncState(p, state)
           \/ AbortInMessage(p, state)
           \/ AbortSync(p, state)
           \/ UNCHANGED control
    PROVE  StaysStarted
  BY DEF TypeOK, StaysStarted, SetSyncState, AbortInMessage, AbortSync, control

LEMMA FinishStaysStarted ==
    ASSUME TypeOK, NEW p \in Party, FinishSync(p) \/ EndIdle(p)
    PROVE  StaysStarted
  BY DEF TypeOK, StaysStarted, FinishSync, EndIdle

LEMMA ProcessStaysStarted ==
    ASSUME TypeOK, NEW p \in Party, Process(p) \/ Deliver(p)
    PROVE  StaysStarted
<1>1. CASE ServeRequest(p)
  BY <1>1, SetStaysStarted DEF ServeRequest
<1>2. CASE Deliver(p)
  BY <1>2 DEF Deliver, StaysStarted, control
<1> QED
  BY <1>1, <1>2 DEF Process, BeginMessage, HandleHeader, HandleStatus, HandleDevInf,
     HandleResults, HandleNextMessageAlert, HandleFinalElement, StaysStarted, control

LEMMA ClientStaysStarted ==
    ASSUME TypeOK, ClientStep
    PROVE  StaysStarted
<1>1. Client \in Party
  BY DEF Party
<1>2. CASE InitiateClientSync
  BY <1>1, <1>2, SetStaysStarted DEF InitiateClientSync
<1>3. CASE HandleClientAlert
  BY <1>1, <1>3, SetStaysStarted DEF HandleClientAlert
<1>4. CASE HandleClientSync
  BY <1>1, <1>4, SetStaysStarted DEF HandleClientSync
<1>5. CASE HandleClientFinal
  <2>1. LastError(Client) # "NOT_PREPARED"
    BY DEF LastError
  <2> QED
    BY <1>1, <1>5, <2>1, SetStaysStarted
       DEF HandleClientFinal, ClientFinalInit, ClientFinalModifications,
           ClientFinalUpdateStatus, ClientFinalLast, ClientFinalUnexpected
<1>6. CASE EndOfClientMessage
  BY <1>1, <1>6, FinishStaysStarted DEF EndOfClientMessage, StaysStarted, control
<1> QED
  BY <1>2, <1>3, <1>4, <1>5, <1>6 DEF ClientStep

LEMMA ServerStaysStarted ==
    ASSUME TypeOK, ServerStep
    PROVE  StaysStarted
<1>1. Server \in Party
  BY DEF Party
<1>2. CASE InitiateServerSync
  BY <1>1, <1>2, SetStaysStarted DEF InitiateServerSync
<1>3. CASE HandleServerAlert
  BY <1>1, <1>3, SetStaysStarted DEF HandleServerAlert
<1>4. CASE HandleServerSync
  BY <1>1, <1>4, SetStaysStarted DEF HandleServerSync
<1>5. CASE HandleServerMap
  BY <1>1, <1>5, SetStaysStarted DEF HandleServerMap, AcceptMap, RejectMap
<1>6. CASE HandleServerFinal
  <2>1. LastError(Server) # "NOT_PREPARED"
    BY DEF LastError
  <2> QED
    BY <1>1, <1>6, <2>1, SetStaysStarted
       DEF HandleServerFinal, ServerFinalInit, ServerFinalModifications,
           ServerFinalLast, ServerFinalEarly, ServerFinalUnexpected
<1>7. CASE EndOfServerMessage
  BY <1>1, <1>7, FinishStaysStarted DEF EndOfServerMessage, SendLast, StaysStarted, control
<1> QED
  BY <1>2, <1>3, <1>4, <1>5, <1>6, <1>7 DEF ServerStep

LEMMA EnvironmentStaysStarted ==
    ASSUME TypeOK, Environment
    PROVE  StaysStarted
<1>1. ASSUME NEW p \in Party, LoseMessage(p)
      PROVE  StaysStarted
  BY <1>1 DEF LoseMessage, StaysStarted, control
<1>2. ASSUME NEW p \in Party, GarbledMessage(p) \/ UserAbort(p)
      PROVE  StaysStarted
  BY <1>2, SetStaysStarted DEF GarbledMessage, UserAbort
<1>3. ASSUME NEW p \in Party, NEW event \in {"invalid", "connection", "rejected", "sent"},
             SetTransportStatus(p, event)
      PROVE  StaysStarted
  <2>1. /\ StateAfterEvent(p, "invalid") # "NOT_PREPARED"
        /\ StateAfterEvent(p, "connection") # "NOT_PREPARED"
        /\ StateAfterEvent(p, "rejected") # "NOT_PREPARED"
        /\ StateAfterEvent(p, "sent") # "NOT_PREPARED"
    BY DEF StateAfterEvent
  <2> QED
    BY <1>3, <2>1, SetStaysStarted DEF SetTransportStatus
<1>4. ASSUME NEW state \in {"INTERNAL_ERROR", "DATABASE_FAILURE", "CONNECTION_ERROR"},
             StartupFailure(state)
      PROVE  StaysStarted
  <2>1. cfg.mode.init \in Party
    BY ConfigType DEF AlertMode, SyncMode, Initiators, Party, Client, Server
  <2> QED
    BY <1>4, <2>1, SetStaysStarted DEF StartupFailure
<1> QED
  BY <1>1, <1>2, <1>3, <1>4 DEF Environment

LEMMA NextStaysStarted ==
    ASSUME TypeOK, Next
    PROVE  StaysStarted
  BY ProcessStaysStarted, ClientStaysStarted, ServerStaysStarted, EnvironmentStaysStarted
     DEF Next, Progress

-----------------------------------------------------------------------------
(***************************************************************************)
(* No step but the first message of a session adds a message.              *)
(***************************************************************************)
LEMMA SendAndReceiveTraffic ==
    ASSUME TypeOK, NEW p \in Party, processing[p], MessageHandled(p), SendAndReceive(p)
    PROVE  Traffic' <= Traffic
<1>1. PICK s \in Sendable(p) : Generate(p, s.k, s.cut)
  BY DEF SendAndReceive
<1>2. s.k \in 0..Len(statuses[p]) /\ s.cut.written \in Seq(Package)
  BY SendableType
<1>3. Len(net'[Other(p)]) = Len(net[Other(p)]) + 1 /\ net'[p] = net[p]
  BY <1>1, <1>2, GenerateTraffic
<1> QED
  BY <1>3, AnswerTraffic DEF SendAndReceive

LEMMA SendLastTraffic ==
    ASSUME TypeOK, processing[Server], MessageHandled(Server), SendLast
    PROVE  Traffic' <= Traffic
<1>1. PICK s \in Sendable(Server) : Generate(Server, s.k, s.cut)
  BY DEF SendLast
<1>2. s.k \in 0..Len(statuses[Server]) /\ s.cut.written \in Seq(Package)
  BY SendableType DEF Party
<1>3. Len(net'[Other(Server)]) = Len(net[Other(Server)]) + 1 /\ net'[Server] = net[Server]
  BY <1>1, <1>2, GenerateTraffic DEF Party
<1> QED
  BY <1>3, AnswerTraffic DEF SendLast, Party

\* A message that is not answered
LEMMA IdleTraffic ==
    ASSUME TypeOK, NEW p \in Party, processing[p], MessageHandled(p), UNCHANGED link
    PROVE  Traffic' <= Traffic
<1>1. Load(p)' = Load(p) - 1
  <2>1. InHand(p) = 1 /\ InHand(p)' = 0
    BY DEF MessageHandled, TypeOK, InHand
  <2> QED
    BY <2>1, LoadType DEF Load, link
<1>2. Load(Other(p))' = Load(Other(p))
  BY OtherType DEF MessageHandled, TypeOK, Load, InHand, link
<1> QED
  BY <1>1, <1>2, LoadType, OtherType DEF Traffic, Other, Party, Client, Server

LEMMA ProcessTraffic ==
    ASSUME TypeOK, NEW p \in Party, Process(p) \/ Deliver(p)
    PROVE  Traffic' <= Traffic
<1>1. CASE UNCHANGED <<processing, link>>
  BY <1>1, SameTraffic, LoadType
<1>2. CASE BeginMessage(p)
  BY <1>2, TakeMessageTraffic DEF BeginMessage
<1>3. CASE ServeRequest(p)
  BY <1>3, TakeMessageTraffic DEF ServeRequest
<1>4. CASE Deliver(p)
  BY <1>4, LeaveTraffic DEF Deliver, reading
<1>5. CASE HandleHeader(p) \/ HandleStatus(p) \/ HandleDevInf(p) \/ HandleResults(p)
  BY <1>1, <1>5 DEF HandleHeader, HandleStatus, HandleDevInf, HandleResults, Consume
<1>6. CASE HandleNextMessageAlert(p) \/ HandleFinalElement(p)
  BY <1>1, <1>6 DEF HandleNextMessageAlert, HandleFinalElement, Consume
<1> QED
  BY <1>2, <1>3, <1>4, <1>5, <1>6 DEF Process

\* All that the client and the server do after their first message
LEMMA PartyTraffic ==
    ASSUME TypeOK, ClientStep \/ ServerStep, ~InitiateClientSync, ~InitiateServerSync
    PROVE  Traffic' <= Traffic
<1>1. CASE UNCHANGED <<processing, link>>
  BY <1>1, SameTraffic, LoadType
<1>2. CASE EndOfClientMessage
  BY <1>2, SendAndReceiveTraffic, IdleTraffic
     DEF EndOfClientMessage, AtEndOfMessage, EndIdle, Party
<1>3. CASE EndOfServerMessage
  BY <1>3, SendAndReceiveTraffic, SendLastTraffic, IdleTraffic
     DEF EndOfServerMessage, AtEndOfMessage, EndIdle, Party
<1>4. CASE HandleClientAlert \/ HandleClientSync \/ HandleClientFinal
  BY <1>1, <1>4 DEF HandleClientAlert, HandleClientSync, HandleClientFinal, FinalHandled, Consume
<1>5. CASE HandleServerAlert \/ HandleServerSync \/ HandleServerMap \/ HandleServerFinal
  BY <1>1, <1>5 DEF HandleServerAlert, HandleServerSync, HandleServerMap,
     HandleServerFinal, FinalHandled, Consume
<1> QED
  BY <1>2, <1>3, <1>4, <1>5 DEF ClientStep, ServerStep

LEMMA EnvironmentTraffic ==
    ASSUME TypeOK, Environment
    PROVE  Traffic' <= Traffic
<1>1. CASE UNCHANGED <<processing, link>>
  BY <1>1, SameTraffic, LoadType
<1>2. ASSUME NEW p \in Party, LoseMessage(p) \/ GarbledMessage(p)
      PROVE  Traffic' <= Traffic
  BY <1>2, LeaveTraffic DEF LoseMessage, GarbledMessage, reading
<1>3. ASSUME NEW p \in Party, NEW event,
             UserAbort(p) \/ SetTransportStatus(p, event)
      PROVE  Traffic' <= Traffic
  BY <1>1, <1>3 DEF UserAbort, SetTransportStatus, reading
<1>4. ASSUME NEW state, StartupFailure(state)
      PROVE  Traffic' <= Traffic
  BY <1>1, <1>4 DEF StartupFailure, reading
<1> QED
  BY <1>2, <1>3, <1>4 DEF Environment

\* The first message, sent while there is none
LEMMA FirstTraffic ==
    ASSUME TypeOK, Traffic = 0, InitiateClientSync \/ InitiateServerSync
    PROVE  Traffic' <= 1
<1>1. ASSUME NEW p \in Party, NEW pkgs \in Seq(Package), Receive(p), UNCHANGED processing,
             \E cut \in Cuts(pkgs, TRUE) : Generate(p, 0, cut)
      PROVE  Traffic' <= 1
  <2>1. PICK cut \in Cuts(pkgs, TRUE) : Generate(p, 0, cut)
    BY <1>1
  <2>2. cut.written \in Seq(Package)
    BY CutsType
  <2>3. 0 \in 0..Len(statuses[p])
    BY LenProperties DEF TypeOK
  <2>4. Len(net'[Other(p)]) = Len(net[Other(p)]) + 1 /\ net'[p] = net[p]
    BY <2>1, <2>2, <2>3, GenerateTraffic
  <2> QED
    BY <1>1, <2>4, InitiateTraffic
<1>2. CASE InitiateClientSync
  <2> DEFINE tgts == IF cfg.noInit THEN Discovered(InitialTargets) ELSE InitialTargets
             pkgs == InitializationPackages(tgts, cfg.noInit)
  <2>1. pkgs \in Seq(Package)
    BY ConfigType, InitialTargetsType, DiscoveredType, InitializationType
  <2>2. \E cut \in Cuts(pkgs, TRUE) : Generate(Client, 0, cut)
    BY <1>2 DEF InitiateClientSync
  <2>3. Receive(Client) /\ UNCHANGED processing
    BY <1>2 DEF InitiateClientSync, reading
  <2> HIDE DEF pkgs
  <2> QED
    BY <1>1, <2>1, <2>2, <2>3 DEF Party
<1>3. CASE InitiateServerSync
  <2> DEFINE pkgs == ServerAlerts \o <<FinalPackage>>
  <2>1. pkgs \in Seq(Package)
    BY ServerAlertsType, FinalType, ConcatProperties
  <2>2. \E cut \in Cuts(pkgs, TRUE) : Generate(Server, 0, cut)
    BY <1>3 DEF InitiateServerSync
  <2>3. Receive(Server) /\ UNCHANGED processing
    BY <1>3 DEF InitiateServerSync, reading
  <2> HIDE DEF pkgs
  <2> QED
    BY <1>1, <2>1, <2>2, <2>3 DEF Party
<1> QED
  BY <1>2, <1>3

\* Nothing reconfigures a session
LEMMA NextKeepsConfiguration ==
    ASSUME [Next]_vars
    PROVE  cfg' = cfg
<1>1. ASSUME NEW p \in Party, Process(p) \/ Deliver(p)
      PROVE  cfg' = cfg
  BY <1>1 DEF Deliver, Process, BeginMessage, ServeRequest, HandleHeader, HandleStatus,
     HandleDevInf, HandleResults, HandleNextMessageAlert, HandleFinalElement
<1>2. CASE ClientStep
  BY <1>2 DEF ClientStep, InitiateClientSync, HandleClientAlert, HandleClientSync,
     HandleClientFinal, EndOfClientMessage
<1>3. CASE ServerStep
  BY <1>3 DEF ServerStep, InitiateServerSync, HandleServerAlert, HandleServerSync,
     HandleServerMap, HandleServerFinal, EndOfServerMessage
<1>4. CASE Environment
  BY <1>4 DEF Environment, LoseMessage, GarbledMessage, UserAbort, SetTransportStatus,
     StartupFailure
<1> QED
  BY <1>1, <1>2, <1>3, <1>4 DEF Next, Progress, vars

-----------------------------------------------------------------------------
\* The inductive invariant holds when a sync starts
LEMMA InitTurns == Init => Turns
<1> SUFFICES ASSUME Init PROVE Turns
  OBVIOUS
<1>1. Len(<<>>) = 0
  BY EmptySeq
<1>2. \A p \in Party : Load(p) = 0
  BY <1>1 DEF Init, Load, InHand
<1> QED
  BY <1>2 DEF Turns, Traffic, Party

LEMMA NextTurns ==
    ASSUME TypeOK, TypeOK', Turns, [Next]_vars
    PROVE  Turns'
<1>1. Traffic \in Nat
  BY LoadType
<1>2. Traffic' \in Nat
  <2>1. \A p \in Party : /\ Len(net[p])' \in Nat
                          /\ Len(incoming[p])' \in Nat
                          /\ Len(parsed[p])' \in Nat
    <3>1. \A p \in Party : /\ net'[p] \in Seq(Message)
                            /\ incoming'[p] \in Seq(Message)
                            /\ parsed'[p] \in Seq(Message)
      BY DEF TypeOK
    <3> QED
      BY <3>1, LenProperties
  <2>2. \A p \in Party : Load(p)' \in Nat
    <3> SUFFICES ASSUME NEW p \in Party PROVE Load(p)' \in Nat
      OBVIOUS
    <3> DEFINE n == Len(net'[p])
               i == Len(incoming'[p])
               q == Len(parsed'[p])
               h == IF processing'[p] THEN 1 ELSE 0
    <3>1. n \in Nat /\ i \in Nat /\ q \in Nat /\ h \in Nat
      BY <2>1
    <3>2. Load(p)' = n + i + q + h
      BY DEF Load, InHand
    <3> HIDE DEF n, i, q, h
    <3>3. n + i + q + h \in Nat
      BY <3>1
    <3> QED
      BY <3>2, <3>3
  <2> QED
    BY <2>2 DEF Traffic, Party
<1>3. cfg' = cfg
  BY NextKeepsConfiguration DEF Next
<1>4. cfg.mode.init \in Party
  BY ConfigType DEF AlertMode, SyncMode, Initiators, Party, Client, Server
<1>5. CASE UNCHANGED vars
  <2>1. Traffic' = Traffic
    BY <1>5, SameTraffic DEF vars, link
  <2> QED
    BY <1>5, <2>1 DEF Turns, Unstarted, vars
<1>6. CASE Next /\ ~InitiateClientSync /\ ~InitiateServerSync
  <2>1. Traffic' <= Traffic
    BY <1>6, ProcessTraffic, PartyTraffic, EnvironmentTraffic DEF Next, Progress
  <2>2. Unstarted' => Unstarted
    BY <1>3, <1>4, <1>6, NextStaysStarted DEF StaysStarted, Unstarted
  <2> QED
    BY <1>1, <1>2, <2>1, <2>2 DEF Turns
<1>7. CASE InitiateClientSync \/ InitiateServerSync
  <2>1. Unstarted /\ ~Unstarted'
    BY <1>3, <1>7 DEF Unstarted, InitiateClientSync, InitiateServerSync, SetSyncState,
       TypeOK, Party
  <2> QED
    BY <1>7, <2>1, FirstTraffic DEF Turns
<1> QED
  BY <1>5, <1>6, <1>7

\* In every behaviour, with every fault, there is one message at most between
\* the two sessions: neither the one-message buffer of the transport nor the
\* single set of fragments of the parser is ever overwritten
THEOREM TurnsTaken == Spec => []HalfDuplex
<1>1. Init => Turns
  BY InitTurns
<1>2. TypeOK /\ TypeOK' /\ Turns /\ [Next]_vars => Turns'
  BY NextTurns
<1>3. Turns => HalfDuplex
  BY DEF Turns, Traffic, HalfDuplex
<1> QED
  BY <1>1, <1>2, <1>3, TypeCorrect, PTL DEF Spec

-----------------------------------------------------------------------------
(***************************************************************************)
(* Ending once.  EndsOnce is inductive: a session leaves an end state by   *)
(* no step, as every state it is set to is guarded by one that is no end.  *)
(***************************************************************************)
EndStates == {"SYNC_FINISHED"} \cup ErrorStates

LEMMA StatesDiffer ==
    /\ \A state \in ProgressStates : state \notin EndStates /\ state # "NOT_PREPARED"
    /\ "NOT_PREPARED" \notin EndStates
    /\ "SYNC_FINISHED" \notin ErrorStates
  BY DEF ProgressStates, InitStates, ExchangeStates, EndStates, ErrorStates

\* What a step does with the processing of messages of the other sessions
OnlyFor(p) == \A q \in Party \ {p} : processing'[q] = processing[q]

LEMMA EndsUnchanged ==
    ASSUME EndsOnce, UNCHANGED <<control, changeLog, processing>>
    PROVE  EndsOnce'
  BY DEF EndsOnce, control

\* A session that goes on, or that a message reaches
LEMMA EndsKept ==
    ASSUME TypeOK, EndsOnce, NEW p \in Party, UNCHANGED <<control, changeLog>>, OnlyFor(p),
           syncState[p] \notin EndStates \/ processing'[p]
    PROVE  EndsOnce'
  BY DEF EndsOnce, EndStates, OnlyFor, control

LEMMA EndsSet ==
    ASSUME TypeOK, EndsOnce, NEW p \in Party, NEW state \in ProgressStates,
           syncState[p] \notin EndStates, SetSyncState(p, state),
           UNCHANGED changeLog, OnlyFor(p)
    PROVE  EndsOnce'
<1>1. state \notin EndStates
  BY StatesDiffer
<1>2. ~syncFinished[p] /\ ~sessionClosed[p]
  BY DEF EndsOnce, EndStates
<1>3. /\ syncState'[p] = state /\ syncFinished'[p] = syncFinished[p]
      /\ sessionClosed'[p] = sessionClosed[p]
      /\ \A q \in Party \ {p} : syncState'[q] = syncState[q]
  BY DEF SetSyncState, TypeOK
<1> QED
  BY <1>1, <1>2, <1>3 DEF EndsOnce, EndStates, SetSyncState, OnlyFor

LEMMA EndsAbortedInMessage ==
    ASSUME TypeOK, EndsOnce, NEW p \in Party, NEW state \in EndStates, processing[p],
           AbortInMessage(p, state), UNCHANGED <<changeLog, processing>>
    PROVE  EndsOnce'
<1>1. CASE sessionClosed[p]
  BY <1>1, EndsUnchanged DEF AbortInMessage
<1>2. CASE ~sessionClosed[p]
  <2>1. /\ syncState'[p] = state /\ syncFinished'[p]
        /\ \A q \in Party \ {p} : syncState'[q] = syncState[q] /\ syncFinished'[q] = syncFinished[q]
        /\ sessionClosed' = sessionClosed
    BY <1>2 DEF AbortInMessage, TypeOK
  <2> QED
    BY <1>2, <2>1 DEF EndsOnce, EndStates
<1> QED
  BY <1>1, <1>2

\* A session is left in an end state
LEMMA EndsExited ==
    ASSUME TypeOK, EndsOnce, NEW p \in Party, NEW state \in EndStates, ~sessionClosed[p],
           syncState' = [syncState EXCEPT ![p] = state],
           syncFinished' = [syncFinished EXCEPT ![p] = TRUE],
           ExitSync(p), OnlyFor(p)
    PROVE  EndsOnce'
<1>1. syncState'[p] = state /\ syncFinished'[p] /\ sessionClosed'[p]
  BY DEF TypeOK, ExitSync
<1>2. \A q \in Party \ {p} : /\ syncState'[q] = syncState[q]
                              /\ syncFinished'[q] = syncFinished[q]
                              /\ sessionClosed'[q] = sessionClosed[q]
                              /\ changeLog'[q] = changeLog[q]
  BY DEF TypeOK, ExitSync
<1>3. Len(changeLog[p]) = 0
  BY DEF EndsOnce
<1>4. Len(changeLog'[p]) = IF state = "SYNC_FINISHED" THEN 1 ELSE 0
  <2>1. CASE state = "SYNC_FINISHED"
    <3>1. changeLog'[p] = Append(changeLog[p], targets[p])
      BY <1>1, <2>1 DEF TypeOK, ExitSync
    <3>2. Len(Append(changeLog[p], targets[p])) = Len(changeLog[p]) + 1
      BY AppendProperties DEF TypeOK
    <3> QED
      BY <1>3, <2>1, <3>1, <3>2
  <2>2. CASE state # "SYNC_FINISHED"
    BY <1>1, <1>3, <2>2 DEF ExitSync
  <2> QED
    BY <2>1, <2>2
<1> QED
  BY <1>1, <1>2, <1>4 DEF EndsOnce, EndStates, OnlyFor

\* A message that is neither answered nor the last
LEMMA EndsIdle ==
    ASSUME TypeOK, EndsOnce, NEW p \in Party, processing[p], EndIdle(p), MessageHandled(p)
    PROVE  EndsOnce'
<1>1. OnlyFor(p)
  BY DEF MessageHandled, TypeOK, OnlyFor
<1>2. CASE ~syncFinished[p]
  <2>1. UNCHANGED <<control, changeLog>>
    BY <1>2 DEF EndIdle, control
  <2> QED
    BY <1>1, <1>2, <2>1, EndsKept DEF EndsOnce, EndStates
<1>3. CASE syncFinished[p] /\ sessionClosed[p]
  BY <1>3 DEF EndIdle, ExitSync, MessageHandled, EndsOnce, TypeOK
<1>4. CASE syncFinished[p] /\ ~sessionClosed[p]
  <2>1. syncState[p] \in EndStates
    BY <1>4 DEF EndsOnce, EndStates
  <2>2. /\ syncState' = [syncState EXCEPT ![p] = syncState[p]]
        /\ syncFinished' = [syncFinished EXCEPT ![p] = TRUE]
        /\ ExitSync(p)
    BY <1>4 DEF EndIdle, TypeOK
  <2> QED
    BY <1>1, <1>4, <2>1, <2>2, EndsExited
<1> QED
  BY <1>2, <1>3, <1>4

\* A session that is finished by a state of which it is the end
LEMMA EndsFinished ==
    ASSUME TypeOK, EndsOnce, NEW p \in Party, syncState[p] \in ProgressStates,
           FinishSync(p), MessageHandled(p)
    PROVE  EndsOnce'
<1>1. ~sessionClosed[p]
  BY StatesDiffer DEF EndsOnce, EndStates
<1>2. OnlyFor(p)
  BY DEF MessageHandled, TypeOK, OnlyFor
<1> QED
  BY <1>1, <1>2, EndsExited DEF FinishSync, EndStates

LEMMA ProcessEnds ==
    ASSUME TypeOK, EndsOnce, NEW p \in Party, Process(p) \/ Deliver(p)
    PROVE  EndsOnce'
<1>1. CASE UNCHANGED <<control, changeLog, processing>>
  BY <1>1, EndsUnchanged
<1>2. CASE BeginMessage(p)
  <2>1. processing'[p] /\ OnlyFor(p)
    BY <1>2 DEF BeginMessage, TakeMessage, TypeOK, OnlyFor
  <2> QED
    BY <1>2, <2>1, EndsKept DEF BeginMessage, storage
<1>3. CASE ServeRequest(p)
  <2>1. OnlyFor(p)
    BY <1>3 DEF ServeRequest, TakeMessage, TypeOK, OnlyFor
  <2>2. "PREPARED" \in ProgressStates
    BY DEF ProgressStates, InitStates
  <2> QED
    BY <1>3, <2>1, <2>2, StatesDiffer, EndsSet DEF ServeRequest, storage
<1>4. CASE HandleHeader(p) \/ HandleStatus(p) \/ HandleDevInf(p) \/ HandleResults(p)
  BY <1>1, <1>4
     DEF HandleHeader, HandleStatus, HandleDevInf, HandleResults, Consume, storage
<1>5. CASE HandleNextMessageAlert(p) \/ HandleFinalElement(p)
  BY <1>1, <1>5 DEF HandleNextMessageAlert, HandleFinalElement, Consume, storage
<1>6. CASE Deliver(p)
  BY <1>1, <1>6 DEF Deliver, reading, storage
<1> QED
  BY <1>2, <1>3, <1>4, <1>5, <1>6 DEF Process

\* What a fragment of a message does with the state of a session that goes on
LEMMA FragmentEnds ==
    ASSUME TypeOK, EndsOnce, NEW p \in Party, NEW state \in ProgressStates,
           syncState[p] \in ProgressStates, SetSyncState(p, state),
           UNCHANGED <<changeLog, processing>>
    PROVE  EndsOnce'
  BY StatesDiffer, EndsSet DEF OnlyFor

\* The last package that is expected ends in an error, if nothing else does
LEMMA UnexpectedEnds ==
    ASSUME TypeOK, EndsOnce, NEW p \in Party, processing[p],
           AbortInMessage(p, LastError(p)), UNCHANGED <<changeLog, processing>>
    PROVE  EndsOnce'
<1>1. LastError(p) \in EndStates
  BY DEF LastError, EndStates, ErrorStates
<1> QED
  BY <1>1, EndsAbortedInMessage

LEMMA ClientEnds ==
    ASSUME TypeOK, EndsOnce, ClientStep
    PROVE  EndsOnce'
<1>1. Client \in Party
  BY DEF Party
<1>2. {"SENDING_ITEMS", "LOCAL_INIT", "REMOTE_INIT", "RECEIVING_ITEMS", "SENDING_MAPPINGS",
       "PREPARED", "FINALIZING"} \subseteq ProgressStates
  BY DEF ProgressStates, InitStates, ExchangeStates
<1>3. CASE InitiateClientSync
  <2>1. OnlyFor(Client) /\ UNCHANGED changeLog
    BY <1>3 DEF InitiateClientSync, reading, storage, OnlyFor
  <2> QED
    BY <1>1, <1>2, <1>3, <2>1, StatesDiffer, EndsSet DEF InitiateClientSync
<1>4. CASE HandleClientAlert
  <2>1. UNCHANGED <<changeLog, processing>>
    BY <1>4 DEF HandleClientAlert, Consume, storage
  <2>2. CASE UNCHANGED control
    BY <2>1, <2>2, EndsUnchanged
  <2>3. CASE ClientMayAcknowledge /\ SetSyncState(Client, "REMOTE_INIT")
    BY <1>1, <1>2, <2>1, <2>3, FragmentEnds DEF ClientMayAcknowledge
  <2> QED
    BY <1>4, <2>2, <2>3 DEF HandleClientAlert
<1>5. CASE HandleClientSync
  <2>1. UNCHANGED <<changeLog, processing>>
    BY <1>5 DEF HandleClientSync, Consume
  <2>2. CASE UNCHANGED control
    BY <2>1, <2>2, EndsUnchanged
  <2>3. CASE ClientAcceptsSync /\ SetSyncState(Client, "RECEIVING_ITEMS")
    BY <1>1, <1>2, <2>1, <2>3, FragmentEnds DEF ClientAcceptsSync
  <2> QED
    BY <1>5, <2>2, <2>3 DEF HandleClientSync
<1>6. CASE HandleClientFinal
  <2>1. UNCHANGED <<changeLog, processing>> /\ processing[Client]
    BY <1>6 DEF HandleClientFinal, AtFinal, FinalHandled, storage
  <2>2. CASE ClientFinalUnexpected
    BY <1>1, <2>1, <2>2, UnexpectedEnds DEF ClientFinalUnexpected
  <2>3. CASE ClientFinalInit \/ ClientFinalModifications
    BY <1>1, <1>2, <2>1, <2>3, FragmentEnds DEF ClientFinalInit, ClientFinalModifications
  <2>4. CASE ClientFinalUpdateStatus \/ ClientFinalLast
    BY <1>1, <1>2, <2>1, <2>4, FragmentEnds DEF ClientFinalUpdateStatus, ClientFinalLast
  <2> QED
    BY <1>6, <2>2, <2>3, <2>4 DEF HandleClientFinal
<1>7. CASE EndOfClientMessage
  <2>1. MessageHandled(Client) /\ processing[Client]
    BY <1>7 DEF EndOfClientMessage, AtEndOfMessage
  <2>2. CASE ClientAnswers /\ UNCHANGED <<control, targets, changeLog>>
    <3>1. OnlyFor(Client)
      BY <2>1 DEF MessageHandled, TypeOK, OnlyFor
    <3>2. syncState[Client] \notin EndStates
      BY <1>2, <2>2, StatesDiffer DEF ClientAnswers
    <3> QED
      BY <1>1, <2>2, <3>1, <3>2, EndsKept
  <2>3. CASE ClientIsDone /\ FinishSync(Client)
    BY <1>1, <1>2, <2>1, <2>3, EndsFinished DEF ClientIsDone
  <2>4. CASE EndIdle(Client)
    BY <1>1, <2>1, <2>4, EndsIdle
  <2> QED
    BY <1>7, <2>2, <2>3, <2>4 DEF EndOfClientMessage
<1> QED
  BY <1>3, <1>4, <1>5, <1>6, <1>7 DEF ClientStep

LEMMA ServerEnds ==
    ASSUME TypeOK, EndsOnce, ServerStep
    PROVE  EndsOnce'
<1>1. Server \in Party
  BY DEF Party
<1>2. /\ {"SENDING_ITEMS", "LOCAL_INIT", "REMOTE_INIT", "RECEIVING_ITEMS",
          "RECEIVING_MAPPINGS", "PREPARED", "FINALIZING"} \subseteq ProgressStates
      /\ InitStates \subseteq ProgressStates
  BY DEF ProgressStates, InitStates, ExchangeStates
<1>3. CASE InitiateServerSync
  <2>1. OnlyFor(Server) /\ UNCHANGED changeLog
    BY <1>3 DEF InitiateServerSync, reading, storage, OnlyFor
  <2> QED
    BY <1>1, <1>2, <1>3, <2>1, StatesDiffer, EndsSet DEF InitiateServerSync
<1>4. CASE HandleServerAlert
  <2>1. UNCHANGED <<changeLog, processing>>
    BY <1>4 DEF HandleServerAlert, Consume, storage
  <2>2. CASE UNCHANGED control
    BY <2>1, <2>2, EndsUnchanged
  <2>3. CASE syncState[Server] \in {"PREPARED", "REMOTE_INIT"}
             /\ SetSyncState(Server, "REMOTE_INIT")
    BY <1>1, <1>2, <2>1, <2>3, FragmentEnds
  <2> QED
    BY <1>4, <2>2, <2>3 DEF HandleServerAlert
<1>5. CASE HandleServerSync
  <2>1. UNCHANGED <<changeLog, processing>>
    BY <1>5 DEF HandleServerSync, Consume
  <2>2. CASE UNCHANGED control
    BY <2>1, <2>2, EndsUnchanged
  <2>3. CASE ServerAcceptsSync /\ SetSyncState(Server, "RECEIVING_ITEMS")
    BY <1>1, <1>2, <2>1, <2>3, FragmentEnds DEF ServerAcceptsSync, SyncInInit
  <2> QED
    BY <1>5, <2>2, <2>3 DEF HandleServerSync
<1>6. CASE HandleServerMap
  <2>1. UNCHANGED <<changeLog, processing>>
    BY <1>6 DEF HandleServerMap, Consume, storage
  <2>2. CASE UNCHANGED control
    BY <2>1, <2>2, EndsUnchanged
  <2>3. CASE syncState[Server] \in {"SENDING_ITEMS", "RECEIVING_MAPPINGS"}
             /\ SetSyncState(Server, "RECEIVING_MAPPINGS")
    BY <1>1, <1>2, <2>1, <2>3, FragmentEnds
  <2> QED
    BY <1>6, <2>2, <2>3 DEF HandleServerMap, AcceptMap, RejectMap
<1>7. CASE HandleServerFinal
  <2>1. UNCHANGED <<changeLog, processing>> /\ processing[Server]
    BY <1>7 DEF HandleServerFinal, AtFinal, FinalHandled, storage
  <2>2. CASE ServerFinalUnexpected
    BY <1>1, <2>1, <2>2, UnexpectedEnds DEF ServerFinalUnexpected
  <2>3. CASE ServerFinalEarly
    BY <2>1, <2>3, EndsUnchanged DEF ServerFinalEarly
  <2>4. CASE ServerFinalInit \/ ServerFinalModifications \/ ServerFinalLast
    BY <1>1, <1>2, <2>1, <2>4, FragmentEnds
       DEF ServerFinalInit, ServerFinalModifications, ServerFinalLast
  <2> QED
    BY <1>7, <2>2, <2>3, <2>4 DEF HandleServerFinal
<1>8. CASE EndOfServerMessage
  <2>1. MessageHandled(Server) /\ processing[Server] /\ OnlyFor(Server)
    BY <1>8 DEF EndOfServerMessage, AtEndOfMessage, MessageHandled, TypeOK, OnlyFor
  <2>2. CASE ServerAnswers /\ UNCHANGED <<control, targets, changeLog>>
    <3>1. syncState[Server] \notin EndStates
      BY <1>2, <2>2, StatesDiffer DEF ServerAnswers
    <3> QED
      BY <1>1, <2>1, <2>2, <3>1, EndsKept
  <2>3. CASE SendLast
    <3>1. CASE FinishSync(Server)
      BY <1>1, <1>2, <2>1, <2>3, <3>1, EndsFinished DEF SendLast
    <3>2. CASE UNCHANGED <<control, targets, changeLog>>
      <4>1. syncState[Server] \notin EndStates
        BY <1>2, <2>3, StatesDiffer DEF SendLast
      <4> QED
        BY <1>1, <2>1, <3>2, <4>1, EndsKept
    <3> QED
      BY <2>3, <3>1, <3>2 DEF SendLast
  <2>4. CASE EndIdle(Server)
    BY <1>1, <2>1, <2>4, EndsIdle
  <2> QED
    BY <1>8, <2>2, <2>3, <2>4 DEF EndOfServerMessage
<1> QED
  BY <1>3, <1>4, <1>5, <1>6, <1>7, <1>8 DEF ServerStep

LEMMA EnvironmentEnds ==
    ASSUME TypeOK, EndsOnce, Environment
    PROVE  EndsOnce'
<1>1. ASSUME NEW p \in Party, NEW state \in EndStates, AbortSync(p, state), UNCHANGED processing
      PROVE  EndsOnce'
  BY <1>1, EndsExited DEF AbortSync, OnlyFor
<1>2. ASSUME NEW p \in Party, LoseMessage(p)
      PROVE  EndsOnce'
  BY <1>2, EndsUnchanged DEF LoseMessage, reading, storage
<1>3. ASSUME NEW p \in Party, GarbledMessage(p) \/ UserAbort(p)
      PROVE  EndsOnce'
  BY <1>1, <1>3 DEF GarbledMessage, UserAbort, reading, EndStates, ErrorStates
<1>4. ASSUME NEW p \in Party, NEW event \in {"invalid", "connection", "rejected", "sent"},
             SetTransportStatus(p, event)
      PROVE  EndsOnce'
  <2>1. /\ StateAfterEvent(p, "invalid") \in EndStates
        /\ StateAfterEvent(p, "connection") \in EndStates
        /\ StateAfterEvent(p, "rejected") \in EndStates
        /\ StateAfterEvent(p, "sent") \in EndStates
    BY DEF StateAfterEvent, EndStates, ErrorStates
  <2> QED
    BY <1>1, <1>4, <2>1 DEF SetTransportStatus, reading
<1>5. ASSUME NEW state \in {"INTERNAL_ERROR", "DATABASE_FAILURE", "CONNECTION_ERROR"},
             StartupFailure(state)
      PROVE  EndsOnce'
  <2>1. cfg.mode.init \in Party
    BY ConfigType DEF AlertMode, SyncMode, Initiators, Party, Client, Server
  <2>2. state \in EndStates
    BY DEF EndStates, ErrorStates
  <2> QED
    BY <1>1, <1>5, <2>1, <2>2 DEF StartupFailure, reading
<1> QED
  BY <1>2, <1>3, <1>4, <1>5 DEF Environment

-----------------------------------------------------------------------------
\* Whatever happens to a session, it reports one end, it closes as soon as the
\* message in which it ended is processed, and it saves its anchors and change
\* logs once, and only if it ended in SYNC_FINISHED
THEOREM EndsInOrder == Spec => []EndsOnce
<1>1. Init => EndsOnce
  <2> SUFFICES ASSUME Init PROVE EndsOnce
    OBVIOUS
  <2>1. Len(<<>>) = 0
    BY EmptySeq
  <2> QED
    BY <2>1, StatesDiffer DEF Init, EndsOnce, EndStates
<1>2. TypeOK /\ EndsOnce /\ [Next]_vars => EndsOnce'
  <2> SUFFICES ASSUME TypeOK, EndsOnce, [Next]_vars PROVE EndsOnce'
    OBVIOUS
  <2>1. CASE UNCHANGED vars
    BY <2>1, EndsUnchanged DEF vars, control
  <2> QED
    BY <2>1, ProcessEnds, ClientEnds, ServerEnds, EnvironmentEnds DEF Next, Progress
<1> QED
  BY <1>1, <1>2, TypeCorrect, PTL DEF Spec

-----------------------------------------------------------------------------
(***************************************************************************)
(* A session that was left stays silent.  It is a fact about steps: a      *)
(* closed session is in an end state, by EndsOnce, and no handler of any   *)
(* message does anything in an end state that another could notice.        *)
(***************************************************************************)
Silence ==
    \A p \in Party : sessionClosed[p] =>
        /\ sessionClosed'[p]
        /\ syncState'[p] = syncState[p]
        /\ changeLog'[p] = changeLog[p]
        /\ applied'[p] = applied[p]
        /\ Len(net'[Other(p)]) <= Len(net[Other(p)])

LEMMA ClosedState ==
    ASSUME EndsOnce, NEW p \in Party, sessionClosed[p]
    PROVE  syncState[p] \notin ProgressStates /\ syncState[p] # "NOT_PREPARED"
  BY StatesDiffer DEF EndsOnce, EndStates

\* A step in which no session takes part
LEMMA SilentWhenUnchanged ==
    ASSUME TypeOK, UNCHANGED <<control, storage, net>>
    PROVE  Silence
  BY LoadType, OtherType DEF Silence, control, storage

LEMMA SilentWhenLeaving ==
    ASSUME TypeOK, NEW p \in Party, net[p] # <<>>, net' = [net EXCEPT ![p] = Tail(@)],
           UNCHANGED <<control, storage>>
    PROVE  Silence
<1>1. \A q \in Party : Len(net'[q]) <= Len(net[q])
  <2>1. Len(Tail(net[p])) = Len(net[p]) - 1
    BY HeadTailProperties DEF TypeOK
  <2> QED
    BY <2>1, LoadType DEF TypeOK
<1> QED
  BY <1>1, OtherType DEF Silence, control, storage

\* A step of one session, that is not closed, and sends nothing to itself
OthersKept(p) ==
    \A q \in Party \ {p} :
        /\ sessionClosed'[q] = sessionClosed[q]
        /\ syncState'[q] = syncState[q]
        /\ changeLog'[q] = changeLog[q]
        /\ applied'[q] = applied[q]

LEMMA SilentOthers ==
    ASSUME TypeOK, NEW p \in Party, ~sessionClosed[p], OthersKept(p),
           Len(net'[p]) <= Len(net[p])
    PROVE  Silence
<1>1. \A q \in Party \ {p} : Other(q) = p
  BY DEF Party, Other, Client, Server
<1> QED
  BY <1>1 DEF Silence, OthersKept

\* The ways an action changes what a session shows keep the other one's
LEMMA ExitKeepsOthers ==
    ASSUME TypeOK, NEW p \in Party, ExitSync(p)
    PROVE  \A q \in Party \ {p} : /\ sessionClosed'[q] = sessionClosed[q]
                                  /\ changeLog'[q] = changeLog[q]
  BY DEF TypeOK, ExitSync

LEMMA SilentWhenSet ==
    ASSUME TypeOK, EndsOnce, NEW p \in Party, NEW state,
           syncState[p] \in ProgressStates \/ syncState[p] = "NOT_PREPARED",
           SetSyncState(p, state), UNCHANGED storage, net'[p] = net[p]
    PROVE  Silence
<1>1. ~sessionClosed[p]
  BY ClosedState
<1>2. OthersKept(p)
  BY DEF OthersKept, SetSyncState, TypeOK, storage
<1> QED
  BY <1>1, <1>2, LoadType, SilentOthers

LEMMA SilentWhenAborted ==
    ASSUME TypeOK, NEW p \in Party, NEW state, AbortSync(p, state), UNCHANGED applied,
           net'[p] = net[p] \/ (net[p] # <<>> /\ net' = [net EXCEPT ![p] = Tail(@)])
    PROVE  Silence
<1>1. OthersKept(p) /\ ~sessionClosed[p]
  BY ExitKeepsOthers DEF OthersKept, AbortSync, TypeOK
<1>2. Len(net'[p]) <= Len(net[p])
  <2>1. CASE net'[p] = net[p]
    BY <2>1, LoadType
  <2>2. CASE net[p] # <<>> /\ net' = [net EXCEPT ![p] = Tail(@)]
    <3>1. Len(Tail(net[p])) = Len(net[p]) - 1
      BY <2>2, HeadTailProperties DEF TypeOK
    <3>2. net'[p] = Tail(net[p])
      BY <2>2 DEF TypeOK
    <3>3. Len(net[p]) \in Nat
      BY LoadType
    <3> QED
      BY <3>1, <3>2, <3>3
  <2> QED
    BY <2>1, <2>2
<1> QED
  BY <1>1, <1>2, SilentOthers

LEMMA SilentWhenAbortedInMessage ==
    ASSUME TypeOK, NEW p \in Party, NEW state, AbortInMessage(p, state),
           UNCHANGED <<storage, net>>
    PROVE  Silence
<1>1. CASE sessionClosed[p]
  BY <1>1, SilentWhenUnchanged DEF AbortInMessage
<1>2. CASE ~sessionClosed[p]
  <2>1. OthersKept(p)
    BY <1>2 DEF OthersKept, AbortInMessage, TypeOK, storage
  <2> QED
    BY <1>2, <2>1, LoadType, SilentOthers
<1> QED
  BY <1>1, <1>2

LEMMA SilentWhenFinished ==
    ASSUME TypeOK, EndsOnce, NEW p \in Party, syncState[p] \in ProgressStates,
           FinishSync(p), UNCHANGED applied, net'[p] = net[p]
    PROVE  Silence
<1>1. ~sessionClosed[p]
  BY ClosedState
<1>2. OthersKept(p)
  BY ExitKeepsOthers DEF OthersKept, FinishSync, TypeOK
<1> QED
  BY <1>1, <1>2, LoadType, SilentOthers

LEMMA SilentWhenIdle ==
    ASSUME TypeOK, NEW p \in Party, EndIdle(p), UNCHANGED applied
    PROVE  Silence
<1>1. CASE sessionClosed[p]
  BY <1>1, SilentWhenUnchanged DEF EndIdle, ExitSync, link, control, storage
<1>2. CASE ~sessionClosed[p]
  <2>1. OthersKept(p)
    BY ExitKeepsOthers DEF OthersKept, EndIdle
  <2> QED
    BY <1>2, <2>1, LoadType, SilentOthers DEF EndIdle, link
<1> QED
  BY <1>1, <1>2

\* An answer goes to the other session
LEMMA SendAndReceiveToOther ==
    ASSUME TypeOK, NEW p \in Party, SendAndReceive(p)
    PROVE  net'[p] = net[p]
<1>1. PICK s \in Sendable(p) : Generate(p, s.k, s.cut)
  BY DEF SendAndReceive
<1>2. s.k \in 0..Len(statuses[p]) /\ s.cut.written \in Seq(Package)
  BY SendableType
<1> QED
  BY <1>1, <1>2, GenerateTraffic

LEMMA SilentWhenAnswered ==
    ASSUME TypeOK, EndsOnce, NEW p \in Party, syncState[p] \in ProgressStates,
           net'[p] = net[p], UNCHANGED <<control, storage>>
    PROVE  Silence
<1>1. ~sessionClosed[p]
  BY ClosedState
<1>2. OthersKept(p)
  BY DEF OthersKept, control, storage
<1> QED
  BY <1>1, <1>2, LoadType, SilentOthers

\* The items of a Sync element are committed in a session that goes on only
LEMMA SilentWhenSync ==
    ASSUME TypeOK, EndsOnce, NEW p \in Party, NEW accepted, HandleSyncElement(p, accepted),
           accepted => syncState[p] \in ProgressStates,
           IF accepted THEN SetSyncState(p, "RECEIVING_ITEMS") ELSE UNCHANGED control,
           UNCHANGED <<changeLog, link>>
    PROVE  Silence
<1>1. CASE ~accepted
  BY <1>1, SilentWhenUnchanged DEF HandleSyncElement, RejectSync, storage, link
<1>2. CASE accepted
  <2>1. ~sessionClosed[p]
    BY <1>2, ClosedState
  <2>2. \A q \in Party \ {p} : applied'[q] = applied[q]
    BY DEF HandleSyncElement, RejectSync, CommitSync, TypeOK
  <2>3. OthersKept(p)
    BY <1>2, <2>2 DEF OthersKept, SetSyncState, TypeOK
  <2> QED
    BY <2>1, <2>3, LoadType, SilentOthers DEF link
<1> QED
  BY <1>1, <1>2

-----------------------------------------------------------------------------
(***************************************************************************)
(* The actions, one by one.                                                *)
(***************************************************************************)
LEMMA ProcessSilent ==
    ASSUME TypeOK, EndsOnce, NEW p \in Party, Process(p) \/ Deliver(p)
    PROVE  Silence
<1>1. CASE UNCHANGED <<control, storage, net>>
  BY <1>1, SilentWhenUnchanged
<1>2. CASE BeginMessage(p)
  BY <1>1, <1>2 DEF BeginMessage
<1>3. CASE ServeRequest(p)
  BY <1>3, SilentWhenSet DEF ServeRequest
<1>4. CASE HandleHeader(p) \/ HandleStatus(p) \/ HandleDevInf(p) \/ HandleResults(p)
  BY <1>1, <1>4 DEF HandleHeader, HandleStatus, HandleDevInf, HandleResults, link
<1>5. CASE HandleNextMessageAlert(p) \/ HandleFinalElement(p)
  BY <1>1, <1>5 DEF HandleNextMessageAlert, HandleFinalElement, link
<1>6. CASE Deliver(p)
  BY <1>6, SilentWhenLeaving DEF Deliver
<1> QED
  BY <1>2, <1>3, <1>4, <1>5, <1>6 DEF Process

LEMMA ClientSilent ==
    ASSUME TypeOK, EndsOnce, ClientStep
    PROVE  Silence
<1>1. Client \in Party
  BY DEF Party
<1>2. {"SENDING_ITEMS", "LOCAL_INIT", "REMOTE_INIT", "RECEIVING_ITEMS", "SENDING_MAPPINGS",
       "PREPARED", "FINALIZING"} \subseteq ProgressStates
  BY DEF ProgressStates, InitStates, ExchangeStates
<1>3. CASE UNCHANGED <<control, storage, net>>
  BY <1>3, SilentWhenUnchanged
<1>4. CASE InitiateClientSync
  <2>1. net'[Client] = net[Client]
    BY <1>1, <1>4, OtherType DEF InitiateClientSync, Generate, TypeOK
  <2> QED
    BY <1>1, <1>4, <2>1, SilentWhenSet DEF InitiateClientSync
<1>5. CASE HandleClientAlert
  <2>1. UNCHANGED <<storage, net>>
    BY <1>5 DEF HandleClientAlert, link
  <2>2. CASE ClientMayAcknowledge /\ SetSyncState(Client, "REMOTE_INIT")
    BY <1>1, <1>2, <2>1, <2>2, SilentWhenSet DEF ClientMayAcknowledge
  <2> QED
    BY <1>3, <1>5, <2>1, <2>2 DEF HandleClientAlert
<1>6. CASE HandleClientSync
  <2>1. ClientAcceptsSync => syncState[Client] \in ProgressStates
    BY <1>2 DEF ClientAcceptsSync
  <2>2. HandleSyncElement(Client, ClientAcceptsSync)
    BY <1>6 DEF HandleClientSync
  <2>3. IF ClientAcceptsSync THEN SetSyncState(Client, "RECEIVING_ITEMS") ELSE UNCHANGED control
    BY <1>6 DEF HandleClientSync
  <2>4. UNCHANGED <<changeLog, link>>
    BY <1>6 DEF HandleClientSync
  <2> QED
    BY <1>1, <2>1, <2>2, <2>3, <2>4, SilentWhenSync
<1>7. CASE HandleClientFinal
  <2>1. UNCHANGED <<storage, net>>
    BY <1>7 DEF HandleClientFinal, link
  <2>2. CASE ClientFinalUnexpected
    BY <1>1, <2>1, <2>2, SilentWhenAbortedInMessage DEF ClientFinalUnexpected
  <2>3. CASE ClientFinalInit \/ ClientFinalModifications
    BY <1>1, <1>2, <2>1, <2>3, SilentWhenSet DEF ClientFinalInit, ClientFinalModifications
  <2>4. CASE ClientFinalUpdateStatus \/ ClientFinalLast
    BY <1>1, <1>2, <2>1, <2>4, SilentWhenSet DEF ClientFinalUpdateStatus, ClientFinalLast
  <2> QED
    BY <1>7, <2>2, <2>3, <2>4 DEF HandleClientFinal
<1>8. CASE EndOfClientMessage
  <2>1. UNCHANGED applied
    BY <1>8 DEF EndOfClientMessage
  <2>2. CASE ClientAnswers /\ SendAndReceive(Client) /\ UNCHANGED <<control, changeLog>>
    BY <1>1, <1>2, <2>1, <2>2, SendAndReceiveToOther, SilentWhenAnswered
       DEF ClientAnswers, storage
  <2>3. CASE ClientIsDone /\ FinishSync(Client) /\ UNCHANGED link
    BY <1>1, <1>2, <2>1, <2>3, SilentWhenFinished DEF ClientIsDone, link
  <2>4. CASE EndIdle(Client)
    BY <1>1, <2>1, <2>4, SilentWhenIdle
  <2> QED
    BY <1>8, <2>2, <2>3, <2>4 DEF EndOfClientMessage
<1> QED
  BY <1>4, <1>5, <1>6, <1>7, <1>8 DEF ClientStep

LEMMA ServerSilent ==
    ASSUME TypeOK, EndsOnce, ServerStep
    PROVE  Silence
<1>1. Server \in Party
  BY DEF Party
<1>2. /\ {"SENDING_ITEMS", "LOCAL_INIT", "REMOTE_INIT", "RECEIVING_ITEMS",
          "RECEIVING_MAPPINGS", "PREPARED", "FINALIZING"} \subseteq ProgressStates
      /\ InitStates \subseteq ProgressStates
  BY DEF ProgressStates, InitStates, ExchangeStates
<1>3. CASE UNCHANGED <<control, storage, net>>
  BY <1>3, SilentWhenUnchanged
<1>4. CASE InitiateServerSync
  <2>1. net'[Server] = net[Server]
    BY <1>1, <1>4, OtherType DEF InitiateServerSync, Generate, TypeOK
  <2> QED
    BY <1>1, <1>4, <2>1, SilentWhenSet DEF InitiateServerSync
<1>5. CASE HandleServerAlert
  <2>1. UNCHANGED <<storage, net>>
    BY <1>5 DEF HandleServerAlert, link
  <2>2. CASE syncState[Server] \in {"PREPARED", "REMOTE_INIT"}
             /\ SetSyncState(Server, "REMOTE_INIT")
    BY <1>1, <1>2, <2>1, <2>2, SilentWhenSet
  <2> QED
    BY <1>3, <1>5, <2>1, <2>2 DEF HandleServerAlert
<1>6. CASE HandleServerSync
  <2>1. ServerAcceptsSync => syncState[Server] \in ProgressStates
    BY <1>2 DEF ServerAcceptsSync, SyncInInit
  <2>2. HandleSyncElement(Server, ServerAcceptsSync)
    BY <1>6 DEF HandleServerSync
  <2>3. IF ServerAcceptsSync THEN SetSyncState(Server, "RECEIVING_ITEMS") ELSE UNCHANGED control
    BY <1>6 DEF HandleServerSync
  <2>4. UNCHANGED <<changeLog, link>>
    BY <1>6 DEF HandleServerSync
  <2> QED
    BY <1>1, <2>1, <2>2, <2>3, <2>4, SilentWhenSync
<1>7. CASE HandleServerMap
  <2>1. UNCHANGED <<storage, net>>
    BY <1>7 DEF HandleServerMap, link
  <2>2. CASE syncState[Server] \in {"SENDING_ITEMS", "RECEIVING_MAPPINGS"}
             /\ SetSyncState(Server, "RECEIVING_MAPPINGS")
    BY <1>1, <1>2, <2>1, <2>2, SilentWhenSet
  <2> QED
    BY <1>3, <1>7, <2>1, <2>2 DEF HandleServerMap, AcceptMap, RejectMap
<1>8. CASE HandleServerFinal
  <2>1. UNCHANGED <<storage, net>>
    BY <1>8 DEF HandleServerFinal, link
  <2>2. CASE ServerFinalUnexpected
    BY <1>1, <2>1, <2>2, SilentWhenAbortedInMessage DEF ServerFinalUnexpected
  <2>3. CASE ServerFinalEarly
    BY <1>3, <2>1, <2>3 DEF ServerFinalEarly
  <2>4. CASE ServerFinalInit \/ ServerFinalModifications \/ ServerFinalLast
    BY <1>1, <1>2, <2>1, <2>4, SilentWhenSet
       DEF ServerFinalInit, ServerFinalModifications, ServerFinalLast
  <2> QED
    BY <1>8, <2>2, <2>3, <2>4 DEF HandleServerFinal
<1>9. CASE EndOfServerMessage
  <2>1. UNCHANGED applied
    BY <1>9 DEF EndOfServerMessage
  <2>2. CASE ServerAnswers /\ SendAndReceive(Server) /\ UNCHANGED <<control, changeLog>>
    BY <1>1, <1>2, <2>1, <2>2, SendAndReceiveToOther, SilentWhenAnswered
       DEF ServerAnswers, storage
  <2>3. CASE SendLast
    <3>1. net'[Server] = net[Server]
      BY <1>1, <2>3, OtherType DEF SendLast, Generate, TypeOK
    <3>2. CASE FinishSync(Server)
      BY <1>1, <1>2, <2>1, <2>3, <3>1, <3>2, SilentWhenFinished DEF SendLast
    <3>3. CASE UNCHANGED <<control, targets, changeLog>>
      BY <1>1, <1>2, <2>1, <2>3, <3>1, <3>3, SilentWhenAnswered DEF SendLast, storage
    <3> QED
      BY <2>3, <3>2, <3>3 DEF SendLast
  <2>4. CASE EndIdle(Server)
    BY <1>1, <2>1, <2>4, SilentWhenIdle
  <2> QED
    BY <1>9, <2>2, <2>3, <2>4 DEF EndOfServerMessage
<1> QED
  BY <1>4, <1>5, <1>6, <1>7, <1>8, <1>9 DEF ServerStep

LEMMA EnvironmentSilent ==
    ASSUME TypeOK, Environment
    PROVE  Silence
<1>1. ASSUME NEW p \in Party, LoseMessage(p)
      PROVE  Silence
  BY <1>1, SilentWhenLeaving DEF LoseMessage
<1>2. ASSUME NEW p \in Party, NEW event,
             GarbledMessage(p) \/ UserAbort(p) \/ SetTransportStatus(p, event)
      PROVE  Silence
  BY <1>2, SilentWhenAborted DEF GarbledMessage, UserAbort, SetTransportStatus, link
<1>3. ASSUME NEW state, StartupFailure(state)
      PROVE  Silence
  <2>1. cfg.mode.init \in Party
    BY ConfigType DEF AlertMode, SyncMode, Initiators, Party, Client, Server
  <2> QED
    BY <1>3, <2>1, SilentWhenAborted DEF StartupFailure, link
<1> QED
  BY <1>1, <1>2, <1>3 DEF Environment

-----------------------------------------------------------------------------
\* No step of any behaviour makes a closed session send, store, save or change
\* what it reported, whatever messages and events still reach it
THEOREM SilentOnceClosed == Spec => ClosedIsSilent
<1>1. TypeOK /\ EndsOnce /\ [Next]_vars => Silence
  <2> SUFFICES ASSUME TypeOK, EndsOnce, [Next]_vars PROVE Silence
    OBVIOUS
  <2>1. CASE UNCHANGED vars
    BY <2>1, SilentWhenUnchanged DEF vars, control, storage
  <2> QED
    BY <2>1, ProcessSilent, ClientSilent, ServerSilent, EnvironmentSilent DEF Next, Progress
<1>2. Silence => [\A p \in Party : sessionClosed[p] =>
                     /\ sessionClosed'[p]
                     /\ syncState'[p] = syncState[p]
                     /\ changeLog'[p] = changeLog[p]
                     /\ applied'[p] = applied[p]
                     /\ Len(net'[Other(p)]) <= Len(net[Other(p)])]_vars
  BY DEF Silence
<1> QED
  BY <1>1, <1>2, TypeCorrect, EndsInOrder, PTL DEF Spec, ClosedIsSilent

=============================================================================
