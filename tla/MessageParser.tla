---------------------------- MODULE MessageParser ----------------------------
(***************************************************************************)
(* How a session receives messages: the buffer of BaseTransport, the       *)
(* parser and what the session makes of its signals.  The parser is a      *)
(* recursive descent over the tokens of an XML reader; here its calls are  *)
(* frames, and every step reads one token.                                 *)
(*                                                                         *)
(* A remote party sends the messages of a script.  On the way a message    *)
(* may be cut, get control characters into a text, arrive empty or as      *)
(* something else, and hold elements the parser does not know.             *)
(***************************************************************************)
EXTENDS SyncMLElements

CONSTANTS
    Scripts,    \* the sequences of messages a remote party may send
    Cuts(_),    \* the lengths, in tokens, written tokens may be cut to
    Stains(_),  \* which of these tokens are texts that may be stained
    Strange(_)  \* after which of them an unknown element may come

VARIABLES
    script,     \* which of them it sends
    arrived,    \* how many of them have arrived
    transport,  \* BaseTransport: what is buffered, what is being read
    reader,     \* iReader: how much it has read
    frames,     \* the calls of the parser's functions, the innermost last
    parser,     \* SyncMLMessageParser: the other members
    session     \* SessionHandler: its state and the messages it took

vars == <<script, arrived, transport, reader, frames, parser, session>>

(***************************************************************************)
(* The elements each function knows: how the element is read, and the      *)
(* field it is read into.                                                  *)
(***************************************************************************)
T(as, to) == [as |-> as, to |-> to]

DocumentFields == [SyncHdr |-> T("SyncHdr", ""), SyncBody |-> T("SyncBody", ""),
                   SyncML |-> T("none", "")]

HeaderFields ==
    [VerDTD |-> T("text", "verDTD"), VerProto |-> T("text", "verProto"),
     SessionID |-> T("text", "sessionID"), MsgID |-> T("int", "msgID"),
     Target |-> T("uri", "targetDevice"), Source |-> T("uri", "sourceDevice"),
     RespURI |-> T("text", "respURI"), NoResp |-> T("flag", "noResp"),
     Cred |-> T("Cred", "cred"), Meta |-> T("Meta", "meta")]

LeafCommands      == {"Alert", "Add", "Replace", "Delete", "Get", "Copy", "Move", "Exec"}
ContainerCommands == {"Atomic", "Sequence"}

\* What readCommand reads, into the list it is told
CommandFields(to) ==
    [name \in LeafCommands \cup ContainerCommands |->
        T(IF name \in LeafCommands THEN "LeafCommand" ELSE "ContainerCommand", to)]

BodyFields ==
    [Status |-> T("Status", ""), Sync |-> T("Sync", ""), Put |-> T("Put", ""),
     Results |-> T("Results", ""), Map |-> T("Map", ""), Final |-> T("final", "")]
    @@ CommandFields("")

ChalFields == [Meta |-> T("Meta", "meta")]

StatusFields ==
    [CmdID |-> T("int", "cmdId"), MsgRef |-> T("int", "msgRef"), CmdRef |-> T("int", "cmdRef"),
     Cmd |-> T("text", "cmd"), TargetRef |-> T("text", "targetRef"),
     SourceRef |-> T("text", "sourceRef"), Data |-> T("int", "data"),
     Item |-> T("Item", "items"), Chal |-> T("Chal", "chal")]

SyncFields ==
    [CmdID |-> T("int", "cmdId"), NoResp |-> T("flag", "noResp"), Meta |-> T("Meta", "meta"),
     Target |-> T("uri", "target"), Source |-> T("uri", "source"),
     NumberOfChanges |-> T("int", "numberOfChanges")]
    @@ CommandFields("commands")

MapFields ==
    [CmdID |-> T("int", "cmdId"), Target |-> T("uri", "target"), Source |-> T("uri", "source"),
     Meta |-> T("Meta", "meta"), MapItem |-> T("MapItem", "mapItems")]

MapItemFields == [Target |-> T("uri", "target"), Source |-> T("uri", "source")]

PutFields == [CmdID |-> T("int", "cmdId"), NoResp |-> T("flag", "noResp"),
              Meta |-> T("Meta", "meta"), Item |-> T("DevInfItem", "devInf")]

ResultsFields ==
    [CmdID |-> T("int", "cmdId"), MsgRef |-> T("int", "msgRef"), CmdRef |-> T("int", "cmdRef"),
     Meta |-> T("Meta", "meta"), TargetRef |-> T("text", "targetRef"),
     SourceRef |-> T("text", "sourceRef"), Item |-> T("DevInfItem", "devInf")]

LeafCommandFields ==
    [CmdID |-> T("int", "cmdId"), NoResp |-> T("flag", "noResp"), Data |-> T("text", "data"),
     Correlator |-> T("text", "correlator"), Meta |-> T("Meta", "meta"),
     Item |-> T("Item", "items")]

ContainerCommandFields ==
    [CmdID |-> T("int", "cmdId"), NoResp |-> T("flag", "noResp"), Meta |-> T("Meta", "meta")]
    @@ CommandFields("subCommands")

CredFields == [Meta |-> T("Meta", "meta"), Data |-> T("text", "data")]

MetaFields ==
    [Format |-> T("text", "format"), Size |-> T("int", "size"), Type |-> T("text", "type"),
     Anchor |-> T("Anchor", "anchor"), Version |-> T("text", "version"),
     NextNonce |-> T("text", "nextNonce"), MaxMsgSize |-> T("int", "maxMsgSize"),
     MaxObjSize |-> T("int", "maxObjSize"), EMI |-> T("text", "EMI"), Mark |-> T("text", "mark")]

AnchorFields == [Next |-> T("text", "next"), Last |-> T("text", "last")]

ItemFields ==
    [Meta |-> T("Meta", "meta"), Target |-> T("uri", "target"), Source |-> T("uri", "source"),
     TargetParent |-> T("uri", "targetParent"), SourceParent |-> T("uri", "sourceParent"),
     Data |-> T("mixed", "data"), MoreData |-> T("flag", "moreData")]

DevInfItemFields == [Source |-> T("uri", "source"), DevInf |-> T("DevInf", "devInfo")]

DevInfFields ==
    [VerDTD |-> T("text", "verDTD"), Man |-> T("text", "manufacturer"), Mod |-> T("text", "model"),
     OEM |-> T("text", "OEM"), FwV |-> T("text", "firmwareVersion"),
     SwV |-> T("text", "softwareVersion"), HwV |-> T("text", "hardwareVersion"),
     DevID |-> T("text", "deviceID"), DevTyp |-> T("text", "deviceType"), UTC |-> T("flag", "UTC"),
     SupportLargeObjs |-> T("flag", "supportsLargeObjs"),
     SupportNumberOfChanges |-> T("flag", "supportsNumberOfChanges"),
     DataStore |-> T("DataStore", "datastores"), CTCap |-> T("CTCap11", "datastores")]

DataStoreFields ==
    [SourceRef |-> T("text", "sourceURI"), Rx |-> T("ContentFormat", "rx"),
     Tx |-> T("ContentFormat", "tx"), SyncCap |-> T("SyncCap", "syncCaps"),
     CTCap |-> T("CTCap12", "ctCaps"),
     SupportHierarchicalSync |-> T("flag", "supportsHierarchicalSync")]
    @@ ("Rx-Pref" :> T("ContentFormat", "preferredRx"))
    @@ ("Tx-Pref" :> T("ContentFormat", "preferredTx"))

ContentFormatFields == [CTType |-> T("text", "type"), VerCT |-> T("text", "version")]

SyncCapFields == [SyncType |-> T("int", "syncCaps")]

CTCap11Fields ==
    [CTType |-> T("text", "type"), PropName |-> T("text", "name"), ValEnum |-> T("text", "values"),
     DataType |-> T("text", "type"), Size |-> T("int", "size"),
     DisplayName |-> T("text", "displayName"), ParamName |-> T("text", "parameters")]

CTCap12Fields == [CTType |-> T("text", "type"), VerCT |-> T("text", "version"),
                  Property |-> T("Property", "properties")]

PropertyFields ==
    [PropName |-> T("text", "name"), DataType |-> T("text", "type"),
     MaxOccur |-> T("int", "maxOccur"), MaxSize |-> T("int", "size"),
     NoTruncate |-> T("flag", "noTruncate"), DisplayName |-> T("text", "displayName"),
     ValEnum |-> T("text", "values"), PropParam |-> T("PropParam", "parameters")]

PropParamFields ==
    [ParamName |-> T("text", "name"), DataType |-> T("text", "type"),
     DisplayName |-> T("text", "displayName"), ValEnum |-> T("text", "values")]

UriFields == [LocURI |-> T("text", "text")]

FieldsOf ==
    [Document |-> DocumentFields, SyncHdr |-> HeaderFields, SyncBody |-> BodyFields,
     Status |-> StatusFields, Chal |-> ChalFields, Sync |-> SyncFields, Map |-> MapFields,
     MapItem |-> MapItemFields, Put |-> PutFields, Results |-> ResultsFields,
     LeafCommand |-> LeafCommandFields, ContainerCommand |-> ContainerCommandFields,
     Cred |-> CredFields, Meta |-> MetaFields, Anchor |-> AnchorFields, Item |-> ItemFields,
     DevInfItem |-> DevInfItemFields, DevInf |-> DevInfFields, DataStore |-> DataStoreFields,
     ContentFormat |-> ContentFormatFields, SyncCap |-> SyncCapFields,
     CTCap11 |-> CTCap11Fields, CTCap12 |-> CTCap12Fields, Property |-> PropertyFields,
     PropParam |-> PropParamFields, uri |-> UriFields, text |-> <<>>, int |-> <<>>,
     mixed |-> <<>>]

\* The functions that return a text, and those that build a fragment
TextReaders     == {"text", "int", "uri", "mixed"}
FragmentReaders == {"SyncHdr", "Status", "Sync", "Map", "Put", "Results"}

\* The fields that are lists, and the functions that read into what there is
ListFields  == {"items", "commands", "subCommands", "mapItems", "EMI", "datastores", "rx", "tx",
                "syncCaps", "ctCaps", "properties", "parameters", "values"}
Accumulates == {"Meta", "Cred", "Chal", "Anchor", "DevInfItem", "DevInf"}

\* A field is set, or appended to; one that got its default value is left out
Put(o, f, v, default) ==
    IF f \in ListFields THEN (f :> Append(Get(o, f, <<>>), v)) @@ o
    ELSE IF v = default THEN [g \in DOMAIN o \ {f} |-> o[g]]
    ELSE (f :> v) @@ o
PutText(o, f, v)   == Put(o, f, v, NoText)
PutObject(o, f, v) == Put(o, f, v, <<>>)

Frame(kind, name, to, obj, dtd) ==
    [reader |-> kind, name |-> name, to |-> to, obj |-> obj, dtd |-> dtd]

Top      == frames[Len(frames)]
SetTop(obj) == frames' = [frames EXCEPT ![Len(frames)].obj = obj]

(***************************************************************************)
(* The capabilities of 1.1: caps are those found so far, current the one   *)
(* of the last CTType, 0 before the first.                                 *)
(***************************************************************************)
NoCaps == [caps |-> <<>>, current |-> 0]

FindCap(o, type) ==
    LET Of == {i \in 1 .. Len(o.caps) : TextOf(o.caps[i], "type") = type}
    IN  IF Of # {} THEN [o EXCEPT !.current = CHOOSE i \in Of : \A j \in Of : i <= j]
        ELSE [caps |-> Append(o.caps, PutText(<<>>, "type", type)),
              current |-> Len(o.caps) + 1]

\* A value of the last property of the current type
AddToProperty(o, f, v) ==
    LET properties == o.caps[o.current].properties
        last       == properties[Len(properties)]
        values     == IF "parameters" \in DOMAIN last THEN last.parameters[1] ELSE <<>>
        changed    == IF f = "parameters"
                      THEN ("parameters" :> <<PutText(values, "values", v)>>) @@ last
                      ELSE PutText(last, f, v)
    IN  [o EXCEPT !.caps[o.current].properties[Len(properties)] = changed]

ReadCTCap11(o, name, v) ==
    CASE name = "CTType"   -> FindCap(o, v)
      [] name = "PropName" -> [o EXCEPT !.caps[o.current] =
                                  PutObject(@, "properties", PutText(<<>>, "name", v))]
      [] name = "DataType" -> AddToProperty(o, "type", v)
      [] OTHER             -> AddToProperty(o, CTCap11Fields[name].to, v)

\* Every store is given the capabilities of the types it is interested in
Interests(store) ==
    {TextOf(Get(store, f, <<>>), "type") : f \in {"preferredRx", "preferredTx"}}
    \cup {TextOf(format, "type") :
             format \in UNION {{s[i] : i \in 1 .. Len(s)} :
                                  s \in {Get(store, f, <<>>) : f \in {"rx", "tx"}}}}
GiveCaps(store, caps) ==
    LET Wanted == SelectSeq(caps, LAMBDA c : TextOf(c, "type") \in Interests(store))
    IN  IF Wanted = <<>> THEN store
        ELSE ("ctCaps" :> Get(store, "ctCaps", <<>>) \o Wanted) @@ store

(***************************************************************************)
(* Calls and returns                                                       *)
(***************************************************************************)
ShouldContinue == parser.error = "none" /\ ~reader.ended

\* The object a function starts to read into
Initial(kind, name, to) ==
    CASE kind \in {"LeafCommand", "ContainerCommand"} -> [commandType |-> name]
      [] kind = "CTCap11"     -> NoCaps
      [] kind = "SyncCap"     -> Top.obj
      [] kind \in Accumulates -> Get(Top.obj, to, <<>>)
      [] kind \in TextReaders -> [text |-> NoText, xml |-> <<>>]
      [] OTHER                -> <<>>

Call(kind, name, to) ==
    LET caller == IF kind # "Chal" THEN frames
                  ELSE [frames EXCEPT ![Len(frames)].obj = ("hasChal" :> TRUE) @@ @]
    IN  frames' = Append(caller, Frame(kind, name, to, Initial(kind, name, to), Top.dtd))

AddFragment(kind, obj) == Append(parser.fragments, [kind |-> kind, content |-> obj])

\* Put and Results are kept next to the header
InsertFragment(kind, obj) ==
    IF parser.fragments = <<>> THEN AddFragment(kind, obj)
    ELSE <<parser.fragments[1], [kind |-> kind, content |-> obj]>> \o Tail(parser.fragments)

\* A function returns its object: into the list of fragments, or to its caller
Return(obj) ==
    LET f        == [Top EXCEPT !.obj = obj]
        text     == TextOf(obj, "text")
        caller   == frames[Len(frames) - 1]
        Into(o)  == frames' = [SubSeq(frames, 1, Len(frames) - 1) EXCEPT ![Len(frames) - 1].obj = o]
        cut      == f.reader \in {"SyncHdr", "SyncBody"} /\ reader.ended
        \* The version of the device information, as readDevInf keeps it
        dtd      == f.name = "VerDTD" /\ caller.reader = "DevInf"
        error    == IF cut THEN "incomplete"
                    ELSE IF dtd /\ text \notin {DTD("1.1"), DTD("1.2")} THEN "invalidData"
                    ELSE parser.error
        fragments ==
            CASE f.reader \in {"Put", "Results"} -> InsertFragment(f.reader, f.obj)
              [] f.reader \in FragmentReaders    -> AddFragment(f.reader, f.obj)
              [] f.reader \in {"LeafCommand", "ContainerCommand"} /\ caller.reader = "SyncBody"
                                                 -> AddFragment("Command", f.obj)
              [] OTHER                           -> parser.fragments
    IN  /\ parser' = [parser EXCEPT !.fragments = fragments, !.error = error]
        /\ IF dtd
           THEN frames' = [SubSeq(frames, 1, Len(frames) - 1)
                              EXCEPT ![Len(frames) - 1].dtd = text]
           ELSE CASE f.reader = "CTCap11" ->
                       Into([field \in DOMAIN caller.obj |->
                                IF field # "datastores" THEN caller.obj[field]
                                ELSE [i \in 1 .. Len(caller.obj[field]) |->
                                         GiveCaps(caller.obj[field][i], f.obj.caps)]])
                  [] f.reader = "SyncCap"      -> Into(f.obj)
                  [] f.reader \in TextReaders /\ caller.reader = "CTCap11" ->
                       Into(ReadCTCap11(caller.obj, f.name, text))
                  [] f.reader \in TextReaders  -> Into(PutText(caller.obj, f.to, text))
                  [] f.to = ""                 -> Into(caller.obj)
                  [] OTHER                     -> Into(PutObject(caller.obj, f.to, f.obj))

(***************************************************************************)
(* The XML reader                                                          *)
(***************************************************************************)
Sent == Scripts[script]

\* The next token.  At the end of a document that was cut, as at a text with a
\* control character, the reader is in error and stays there
NextToken ==
    LET data == transport.device.data
    IN  IF reader.pos < Len(data) THEN data[reader.pos + 1]
        ELSE [tok |-> IF data[Len(data)] = End("SyncML") THEN "endDocument" ELSE "invalid"]

ReadNext ==
    reader' = CASE NextToken.tok = "endDocument" -> [reader EXCEPT !.ended = TRUE]
                [] NextToken.tok = "invalid"     -> [reader EXCEPT !.ended = TRUE, !.failed = TRUE]
                [] OTHER                         -> [reader EXCEPT !.pos = @ + 1]

\* Every step of the parser leaves the rest of the session alone
Parsing == /\ frames # <<>>
           /\ UNCHANGED <<script, arrived, transport, session>>

\* A loop of a function that reads elements goes on
Reading == Parsing /\ ShouldContinue /\ Top.reader \notin {"int", "mixed"}

\* The end element at which a function is done
Closes(t) ==
    /\ t.tok = "end"
    /\ CASE Top.reader = "text"     -> TRUE
         [] Top.reader = "uri"      -> t.name \in {"Target", "Source", "TargetParent", "SourceParent"}
         [] Top.reader = "Document" -> FALSE
         [] OTHER                   -> t.name = Top.name

Opens(t) == t.tok = "start" /\ t.name \in DOMAIN FieldsOf[Top.reader]

ReadEnd ==
    /\ Reading /\ Closes(NextToken)
    /\ ReadNext /\ Return(Top.obj)

Refuse(error) == parser' = [parser EXCEPT !.error = error] /\ UNCHANGED frames

\* The elements that may not be where they are
Misplaced(name) ==
    \/ name = "SyncHdr" /\ Top.reader = "Document" /\ parser.hdrFound
    \/ name = "SyncBody" /\ Top.reader = "Document" /\ parser.bodyFound
    \/ name = "CTCap" /\ Top.reader = "DevInf" /\ Top.dtd # DTD("1.1")
    \/ name = "SupportHierarchicalSync" /\ Top.reader = "DataStore" /\ Top.dtd # DTD("1.2")
    \/ name # "CTType" /\ Top.reader = "CTCap11" /\ Top.obj.current = 0

ReadStart ==
    LET t == NextToken
        f == FieldsOf[Top.reader][t.name]
    IN  /\ Reading /\ Opens(t)
        /\ ReadNext
        /\ IF Misplaced(t.name) THEN Refuse("invalidData")
           ELSE CASE f.as = "none"  -> UNCHANGED <<frames, parser>>
                  [] f.as = "final" -> /\ parser' = [parser EXCEPT !.last = TRUE]
                                       /\ UNCHANGED frames
                  [] f.as = "flag"  -> /\ SetTop((f.to :> TRUE) @@ Top.obj)
                                       /\ UNCHANGED parser
                  [] OTHER -> /\ Call(f.as, t.name, f.to)
                              /\ parser' = [parser EXCEPT
                                    !.hdrFound  = @ \/ f.as = "SyncHdr",
                                    !.bodyFound = @ \/ f.as = "SyncBody"]

\* Elements the function does not know and ends that are not its own.  The text
\* of an element comes as one token, and so it is set where the code appends
ReadOther ==
    LET t == NextToken
    IN  /\ Reading /\ ~Closes(t) /\ ~Opens(t)
        /\ ReadNext
        /\ CASE Top.reader = "text" /\ t.tok = "chars" ->
                  SetTop([Top.obj EXCEPT !.text = t.text]) /\ UNCHANGED parser
             [] Top.reader = "Document" /\ t.tok \in {"start", "invalid"} ->
                  Refuse("unexpectedData")
             [] Top.reader = "CTCap11" /\ t.tok = "start" /\ Top.obj.current = 0 ->
                  Refuse("invalidData")
             [] OTHER -> UNCHANGED <<frames, parser>>

\* A number is the token after the start of its element, whatever that is
ReadInt ==
    LET t == NextToken
    IN  /\ Parsing /\ Top.reader = "int"
        /\ ReadNext
        /\ Return([Top.obj EXCEPT !.text = Digits(IF t.tok = "chars" THEN t.text.num ELSE 0)])

(***************************************************************************)
(* readMixed: the data of an item is either text or an element, which is   *)
(* copied up to the first end element of its name.  The loop that copies   *)
(* looks for nothing else, not for the end of the document either.         *)
(***************************************************************************)
Copying == Top.obj.xml # <<>>

ReadMixed ==
    LET t == NextToken
    IN  /\ Parsing /\ Top.reader = "mixed" /\ ShouldContinue /\ ~Copying
        /\ ReadNext
        /\ CASE t.tok = "end"   -> Return(Top.obj)
             [] t.tok = "start" -> SetTop([Top.obj EXCEPT !.xml = <<t>>]) /\ UNCHANGED parser
             [] t.tok = "chars" -> SetTop([Top.obj EXCEPT !.text = t.text]) /\ UNCHANGED parser
             [] OTHER           -> UNCHANGED <<frames, parser>>

CopyXml ==
    LET t   == NextToken
        xml == Append(Top.obj.xml, t)
    IN  /\ Parsing /\ Top.reader = "mixed" /\ Copying
        /\ ReadNext
        /\ IF t.tok = "end" /\ t.name = xml[1].name
           THEN Return([Top.obj EXCEPT !.text = Xml(xml)])
           ELSE /\ t.tok # "invalid" => SetTop([Top.obj EXCEPT !.xml = xml])
                /\ t.tok = "invalid" => UNCHANGED frames
                /\ UNCHANGED parser

\* A loop that may not go on: the function returns what it has
Leave ==
    /\ Parsing /\ ~ShouldContinue
    /\ Top.reader \notin {"int", "Document"}
    /\ ~(Top.reader = "mixed" /\ Copying)
    /\ Return(Top.obj)
    /\ UNCHANGED reader

(***************************************************************************)
(* The transport and the session                                           *)
(***************************************************************************)
NoMessage == [type |-> "none", data |-> <<>>]

NewParser(new) == [fragments |-> <<>>, last |-> FALSE, error |-> "none", new |-> new,
                   hdrFound |-> FALSE, bodyFound |-> FALSE]
NewReader == [pos |-> 0, ended |-> FALSE, failed |-> FALSE]

\* Mutant: that a message was the last of its package is not forgotten
StartParsingKeepsLast(new) ==
    /\ frames' = <<Frame("Document", "", "", <<>>, NoText)>>
    /\ reader' = NewReader
    /\ parser' = [NewParser(new) EXCEPT !.last = parser.last]

StartParsing(new) ==
    /\ frames' = <<Frame("Document", "", "", <<>>, NoText)>>
    /\ reader' = NewReader
    /\ parser' = NewParser(new)

Idle == frames = <<>> /\ session.state \notin {"aborted", "done"}

AbortSync == session' = [session EXCEPT !.state = "aborted"]

\* A message is handed on: XML to the parser, a notification to the session,
\* which does not expect one
EmitReadSignal(message, state) ==
    /\ transport' = [device |-> message, incoming |-> NoMessage, handle |-> FALSE]
    /\ IF message.type = "san"
       THEN AbortSync /\ UNCHANGED <<frames, reader, parser>>
       ELSE StartParsing(TRUE) /\ session' = [session EXCEPT !.state = state]

\* The session has sent its message and listens for the answer
Receive ==
    /\ Idle /\ session.state = "sent"
    /\ IF transport.incoming # NoMessage
       THEN EmitReadSignal(transport.incoming, "receiving")
       ELSE /\ transport' = [transport EXCEPT !.handle = TRUE]
            /\ session' = [session EXCEPT !.state = "receiving"]
            /\ UNCHANGED <<frames, reader, parser>>
    /\ UNCHANGED <<script, arrived>>

\* What becomes of the tokens of a message on its way
Disturbed(tokens) ==
    {SubSeq(tokens, 1, i) : i \in Cuts(tokens)}
    \cup {[tokens EXCEPT ![i].tok = "invalid"] : i \in Stains(tokens)}
    \cup {SubSeq(tokens, 1, i) \o Leaf("Stranger", Word("stranger"))
               \o SubSeq(tokens, i + 1, Len(tokens)) : i \in Strange(tokens)}

\* The answer arrives, perhaps before anybody listens, or something that is
\* no message does
Arrival(message) ==
    /\ Idle /\ arrived < Len(Sent) /\ arrived = Len(session.taken)
    /\ arrived' = arrived + 1
    /\ IF message.type \in {"empty", "other"}
       THEN /\ transport' = IF message.type = "empty" THEN transport
                            ELSE [transport EXCEPT !.incoming = NoMessage]
            /\ AbortSync /\ UNCHANGED <<frames, reader, parser>>
       ELSE IF transport.handle THEN EmitReadSignal(message, session.state)
       ELSE /\ transport' = [transport EXCEPT !.incoming = message]
            /\ UNCHANGED <<frames, reader, parser, session>>
    /\ UNCHANGED script

Arrive ==
    \/ \E tokens \in {Write(Sent[i]) : i \in {arrived + 1} \cap DOMAIN Sent} :
          \E data \in {tokens} \cup Disturbed(tokens) : Arrival([type |-> "xml", data |-> data])
    \/ \E type \in {"empty", "other", "san"} : Arrival([NoMessage EXCEPT !.type = type])

\* Mutant: only characters that the reader accepts are looked at
PurgedTextOnly(token) ==
    IF token.tok = "chars" THEN [token EXCEPT !.text.commas = 0] ELSE token

\* The control characters are taken out of what is being read, and that is
\* parsed again.  The expression for them names the comma with them
Purged(token) ==
    IF token.tok \in {"chars", "invalid"}
    THEN [tok |-> "chars", text |-> [token.text EXCEPT !.commas = 0]] ELSE token
\* Mutant: what was purged counts as a new message
PurgeAndResendAsNew ==
    /\ transport' = [transport EXCEPT !.device.data = [i \in 1 .. Len(@) |-> Purged(@[i])]]
    /\ StartParsing(TRUE)

PurgeAndResendBuffer ==
    /\ transport' = [transport EXCEPT !.device.data = [i \in 1 .. Len(@) |-> Purged(@[i])]]
    /\ StartParsing(FALSE)

\* The document is parsed as far as it goes.  An error of the reader in a new
\* message is taken for a control character; an error is handled at once, a
\* complete message when the session gets to it
Finish ==
    /\ frames # <<>> /\ Top.reader = "Document" /\ ~ShouldContinue
    /\ IF parser.error # "none" /\ parser.new /\ reader.failed
       THEN PurgeAndResendBuffer /\ UNCHANGED session
       ELSE /\ frames' = <<>>
            /\ IF parser.error = "none" /\ parser.hdrFound /\ parser.bodyFound
               THEN session' = [session EXCEPT !.queue = Append(@, parser.last)]
               ELSE AbortSync
            /\ UNCHANGED <<transport, reader, parser>>
    /\ UNCHANGED <<script, arrived>>

\* The session takes the fragments, and answers them
HandleParsingComplete ==
    /\ Idle /\ session.queue # <<>>
    /\ session' = [state |-> IF Len(session.taken) + 1 = Len(Sent) THEN "done" ELSE "sent",
                   queue |-> Tail(session.queue),
                   taken |-> Append(session.taken, [fragments |-> parser.fragments,
                                                    last |-> Head(session.queue)])]
    /\ parser' = [parser EXCEPT !.fragments = <<>>]
    /\ UNCHANGED <<script, arrived, transport, reader, frames>>

Init ==
    /\ script \in 1 .. Len(Scripts) /\ arrived = 0
    /\ transport = [device |-> NoMessage, incoming |-> NoMessage, handle |-> FALSE]
    /\ reader = NewReader /\ frames = <<>> /\ parser = NewParser(FALSE)
    /\ session = [state |-> "sent", queue |-> <<>>, taken |-> <<>>]

\* What a session and its parser do by themselves
Proceed ==
    \/ ReadStart \/ ReadEnd \/ ReadOther \/ ReadInt \/ ReadMixed \/ CopyXml
    \/ Leave \/ Finish \/ Receive \/ HandleParsingComplete

Next == Proceed \/ Arrive

\* The event loop of the process runs as long as there is something to do
Fairness == WF_vars(Proceed)

Spec == Init /\ [][Next]_vars /\ Fairness
=============================================================================
