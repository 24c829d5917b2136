--------------------------- MODULE SyncMLElements ---------------------------
(***************************************************************************)
(* What the element classes of src/syncelements and the packages write: a  *)
(* message as the sequence of tokens an XML reader finds in it.            *)
(*                                                                         *)
(* The content of a fragment is a function from the fields of the params   *)
(* structures of Fragments.h to their values; a field that has its default *)
(* value (an empty string, list or structure, FALSE) is left out of the    *)
(* domain.  Namespaces, the XML declaration and CDATA sections are left    *)
(* out: the reader finds the same names and characters with and without.   *)
(***************************************************************************)
EXTENDS Integers, Sequences, TLC

LOCAL INSTANCE SequencesExt

(***************************************************************************)
(* Texts.  Digits(n) is what QString::number(n) makes of a number, Word(s) *)
(* any other text, Xml(ts) a text that is itself the tokens ts.  The       *)
(* commas of a text are counted.                                           *)
(***************************************************************************)
Text(num, str, xml) == [num |-> num, str |-> str, xml |-> xml, commas |-> 0]
Digits(n) == Text(n, "digits", <<>>)
Word(s)   == Text(0, s, <<>>)
Xml(ts)   == Text(0, "xml", ts)
NoText    == Word("")

Start(name) == [tok |-> "start", name |-> name]
End(name)   == [tok |-> "end", name |-> name]
Chars(text) == [tok |-> "chars", text |-> text]

\* An element with its children
Element(name, kids) == <<Start(name)>> \o FlattenSeq(kids) \o <<End(name)>>

\* An element with a text: an empty one is written <name/>
Leaf(name, text) ==
    IF text = NoText THEN Element(name, <<>>) ELSE <<Start(name), Chars(text), End(name)>>

\* Field f of content o, and the elements written only if it is there
Get(o, f, default) == IF f \in DOMAIN o THEN o[f] ELSE default
TextOf(o, f)       == Get(o, f, NoText)
Optional(o, f, name) == IF f \in DOMAIN o THEN Leaf(name, o[f]) ELSE <<>>

Uri(name, text) == Element(name, <<Leaf("LocURI", text)>>)
OptionalUri(o, f, name) == IF f \in DOMAIN o THEN Uri(name, o[f]) ELSE <<>>

\* The elements Write makes of each member of a list
EachOf(list, Write(_)) == FlattenSeq([i \in 1 .. Len(list) |-> Write(list[i])])

(***************************************************************************)
(* Meta, items, maps                                                       *)
(***************************************************************************)
Anchors(anchor) ==
    Element("Anchor", <<Leaf("Last", TextOf(anchor, "last")), Leaf("Next", TextOf(anchor, "next"))>>)

\* The Meta elements of an item of an Alert, of a change, of the header and of
\* a challenge: each writes its own fields, in its own order
AlertMeta(meta) ==
    Element("Meta",
        <<IF "anchor" \in DOMAIN meta THEN Anchors(meta.anchor) ELSE <<>>,
          Optional(meta, "type", "Type"), Optional(meta, "format", "Format"),
          Optional(meta, "mark", "Mark")>>)
ChangeMeta(meta) ==
    Element("Meta", <<Leaf("Type", TextOf(meta, "type")), Optional(meta, "version", "Version"),
                      Optional(meta, "size", "Size"), Optional(meta, "format", "Format")>>)
HeaderMeta(meta) ==
    Element("Meta", <<Optional(meta, "maxMsgSize", "MaxMsgSize"),
                      Optional(meta, "maxObjSize", "MaxObjSize"),
                      EachOf(Get(meta, "EMI", <<>>), LAMBDA e : Leaf("EMI", e))>>)
ChalMeta(meta) ==
    Element("Meta", <<Leaf("Type", TextOf(meta, "type")), Leaf("Format", TextOf(meta, "format")),
                      Optional(meta, "nextNonce", "NextNonce")>>)

OptionalMeta(o, Meta(_)) == IF "meta" \in DOMAIN o THEN Meta(o.meta) ELSE <<>>

\* The data of an item: characters, or what a remote party may send there, XML
Data(text) == IF text.xml = <<>> THEN Leaf("Data", text) ELSE Element("Data", <<text.xml>>)
ItemData(item) == IF "data" \in DOMAIN item THEN Data(item.data) ELSE <<>>

AlertItem(item) ==
    Element("Item", <<OptionalUri(item, "target", "Target"), OptionalUri(item, "source", "Source"),
                      OptionalMeta(item, AlertMeta), ItemData(item)>>)
StatusItem(item) ==
    Element("Item", <<OptionalUri(item, "source", "Source"), OptionalUri(item, "target", "Target"),
                      ItemData(item)>>)
ChangeItem(item) ==
    Element("Item", <<OptionalUri(item, "source", "Source"), OptionalUri(item, "target", "Target"),
                      OptionalUri(item, "targetParent", "TargetParent"),
                      OptionalUri(item, "sourceParent", "SourceParent"), ItemData(item),
                      IF "moreData" \in DOMAIN item THEN Leaf("MoreData", NoText) ELSE <<>>>>)
MapItem(item) == Element("MapItem", <<Uri("Target", item.target), Uri("Source", item.source)>>)

(***************************************************************************)
(* The header and the commands of the body                                 *)
(***************************************************************************)
SyncMLCred(cred) ==
    Element("Cred", <<Element("Meta", <<Leaf("Format", TextOf(cred.meta, "format")),
                                        Leaf("Type", TextOf(cred.meta, "type"))>>),
                      Leaf("Data", TextOf(cred, "data"))>>)

SyncMLHdr(h) ==
    Element("SyncHdr",
        <<Leaf("VerDTD", h.verDTD), Leaf("VerProto", h.verProto),
          Leaf("SessionID", h.sessionID), Leaf("MsgID", h.msgID),
          Uri("Target", h.targetDevice), Uri("Source", h.sourceDevice),
          Optional(h, "respURI", "RespURI"), OptionalMeta(h, HeaderMeta),
          IF "cred" \in DOMAIN h THEN SyncMLCred(h.cred) ELSE <<>>>>)

\* A status: the anchor it answers an Alert with is written as an item of XML
NextAnchor(s) == Element("Anchor", <<Leaf("Next", s.nextAnchor)>>)
SyncMLStatus(s) ==
    Element("Status",
        <<Leaf("CmdID", s.cmdId), Leaf("MsgRef", s.msgRef), Leaf("CmdRef", s.cmdRef),
          Leaf("Cmd", s.cmd), Optional(s, "targetRef", "TargetRef"),
          Optional(s, "sourceRef", "SourceRef"), Leaf("Data", s.data),
          IF "nextAnchor" \in DOMAIN s
          THEN Element("Item", <<Element("Data", <<NextAnchor(s)>>)>>) ELSE <<>>,
          EachOf(Get(s, "items", <<>>), StatusItem),
          IF "chal" \in DOMAIN s THEN Element("Chal", <<ChalMeta(s.chal.meta)>>) ELSE <<>>>>)

SyncMLAlert(a) ==
    Element("Alert", <<Leaf("CmdID", a.cmdId), Leaf("Data", a.data),
                       Optional(a, "correlator", "Correlator"),
                       EachOf(Get(a, "items", <<>>), AlertItem)>>)

SyncMLGet(g) ==
    Element("Get", <<Leaf("CmdID", g.cmdId), Element("Meta", <<Leaf("Type", g.meta.type)>>),
                     Element("Item", <<Uri("Target", g.items[1].target)>>)>>)

\* An Add, a Replace or a Delete
SyncMLLocalChange(c) ==
    Element(c.commandType, <<Leaf("CmdID", c.cmdId), OptionalMeta(c, ChangeMeta),
                             EachOf(c.items, ChangeItem)>>)

\* An Atomic or a Sequence, which only others send
SyncMLContainer(c) ==
    Element(c.commandType, <<Leaf("CmdID", c.cmdId), EachOf(c.subCommands, SyncMLLocalChange)>>)

SyncMLSync(s) ==
    Element("Sync", <<Leaf("CmdID", s.cmdId), Uri("Target", s.target), Uri("Source", s.source),
                      Optional(s, "numberOfChanges", "NumberOfChanges"),
                      EachOf(Get(s, "commands", <<>>), SyncMLLocalChange)>>)

SyncMLMap(m) ==
    Element("Map", <<Leaf("CmdID", m.cmdId), Uri("Target", m.target), Uri("Source", m.source),
                     EachOf(m.mapItems, MapItem)>>)
-----------------------------------------------------------------------------
(***************************************************************************)
(* The device information a party sends in Put and Results, and whole      *)
(* messages.  A storage plugin describes itself: the formats it receives   *)
(* and sends, and the capabilities of its content types, which it gives as *)
(* XML and which are passed on as they are.                                *)
(***************************************************************************)
\* Versions of the protocol: that of the DTD and the path of the information
DTD(version)        == Word(version)
DevInfPath(version) == Word(IF version = "1.2" THEN "./devinf12" ELSE "./devinf11")

SyncTypes == [i \in 1 .. 7 |-> Digits(i)]

\* A content format, preferred or not
Format(name, format) ==
    Element(name, <<Leaf("CTType", TextOf(format, "type")), Leaf("VerCT", TextOf(format, "version"))>>)
Preferred(o, f, name) == IF f \in DOMAIN o THEN Format(name, o[f]) ELSE <<>>

SyncCap == Element("SyncCap", [i \in 1 .. Len(SyncTypes) |-> Leaf("SyncType", SyncTypes[i])])

(***************************************************************************)
(* Capabilities as a plugin gives them.  In 1.1 those of all stores follow *)
(* one another in one CTCap element, in which a CTType begins those of a   *)
(* type and a PropName those of a property; a parameter is only a value.   *)
(* In 1.2 each is an element of its store, and all is nested.              *)
(***************************************************************************)
Property11(p) ==
    Leaf("PropName", p.name) \o Optional(p, "type", "DataType") \o Optional(p, "size", "Size")
    \o Optional(p, "displayName", "DisplayName")
    \o EachOf(Get(p, "values", <<>>), LAMBDA v : Leaf("ValEnum", v))
    \o EachOf(Get(p, "parameters", <<>>),
              LAMBDA q : EachOf(Get(q, "values", <<>>), LAMBDA v : Leaf("ParamName", v)))
Cap11(cap) == Leaf("CTType", cap.type) \o EachOf(Get(cap, "properties", <<>>), Property11)

Parameter12(q) ==
    Element("PropParam", <<Optional(q, "name", "ParamName"), Optional(q, "type", "DataType"),
                           Optional(q, "displayName", "DisplayName"),
                           EachOf(Get(q, "values", <<>>), LAMBDA v : Leaf("ValEnum", v))>>)
Property12(p) ==
    Element("Property",
        <<Leaf("PropName", p.name), Optional(p, "type", "DataType"),
          Optional(p, "maxOccur", "MaxOccur"), Optional(p, "size", "MaxSize"),
          IF "noTruncate" \in DOMAIN p THEN Leaf("NoTruncate", NoText) ELSE <<>>,
          Optional(p, "displayName", "DisplayName"),
          EachOf(Get(p, "values", <<>>), LAMBDA v : Leaf("ValEnum", v)),
          EachOf(Get(p, "parameters", <<>>), Parameter12)>>)
Cap12(cap) ==
    Element("CTCap", <<Leaf("CTType", cap.type), Optional(cap, "version", "VerCT"),
                       EachOf(Get(cap, "properties", <<>>), Property12)>>)

\* A store, with the capabilities that belong inside it
GenerateDataStore(store, role, caps) ==
    Element("DataStore",
        <<Leaf("SourceRef", store.sourceURI),
          IF role = "client" THEN Leaf("MaxGUIDSize", Digits(32)) ELSE <<>>,
          Preferred(store, "preferredRx", "Rx-Pref"), Preferred(store, "preferredTx", "Tx-Pref"),
          EachOf(Get(store, "rx", <<>>), LAMBDA f : Format("Rx", f)),
          EachOf(Get(store, "tx", <<>>), LAMBDA f : Format("Tx", f)),
          SyncCap, caps>>)

CapsOf(store) == Get(store, "ctCaps", <<>>)

\* The stores of the device, with their capabilities where the version has them
DataStores(version, stores, role) ==
    IF version = "1.2"
    THEN EachOf(stores, LAMBDA s : GenerateDataStore(s, role, EachOf(CapsOf(s), Cap12)))
    ELSE EachOf(stores, LAMBDA s : GenerateDataStore(s, role, <<>>))
         \o IF \A i \in 1 .. Len(stores) : CapsOf(stores[i]) = <<>> THEN <<>>
            ELSE Element("CTCap", <<EachOf(stores, LAMBDA s : EachOf(CapsOf(s), Cap11))>>)

DevInf(version, device, stores, role) ==
    Element("Item",
      <<Uri("Source", DevInfPath(version)),
        Element("Data", <<Element("DevInf",
          <<Leaf("VerDTD", DTD(version)), Leaf("Man", TextOf(device, "manufacturer")),
            Leaf("Mod", TextOf(device, "model")), Leaf("FwV", TextOf(device, "firmwareVersion")),
            Leaf("SwV", TextOf(device, "softwareVersion")),
            Leaf("HwV", TextOf(device, "hardwareVersion")), Leaf("DevID", TextOf(device, "deviceID")),
            Leaf("DevTyp", TextOf(device, "deviceType")), Leaf("UTC", NoText),
            Leaf("SupportLargeObjs", NoText), Leaf("SupportNumberOfChanges", NoText),
            DataStores(version, stores, role)>>)>>)>>)

DevInfType == Word("application/vnd.syncml-devinf+xml")
TypeMeta   == Element("Meta", <<Leaf("Type", DevInfType)>>)

SyncMLPut(p) ==
    Element("Put", <<Leaf("CmdID", p.cmdId), TypeMeta,
                     DevInf(p.version, p.device, p.stores, p.role)>>)
SyncMLResults(r) ==
    Element("Results", <<Leaf("CmdID", r.cmdId), Leaf("MsgRef", r.msgRef), Leaf("CmdRef", r.cmdRef),
                         Leaf("TargetRef", DevInfPath(r.version)), TypeMeta,
                         DevInf(r.version, r.device, r.stores, r.role)>>)

(***************************************************************************)
(* A message: a header, the commands of the body in the order they were    *)
(* composed, each a record of its kind and its content, and perhaps Final. *)
(* The commands of a message are numbered as they are written, a change    *)
(* after the Sync it is in.                                                *)
(***************************************************************************)
Numbers(command) ==
    1 + IF command.kind = "Sync" THEN Len(Get(command.content, "commands", <<>>)) ELSE 0
Numbered(command, n) ==
    LET Id(i) == "cmdId" :> Digits(i)
        o     == Id(n) @@ command.content
    IN  [command EXCEPT !.content =
            IF command.kind = "Sync" /\ "commands" \in DOMAIN o
            THEN [o EXCEPT !.commands = [i \in 1 .. Len(@) |-> Id(n + i) @@ @[i]]]
            ELSE o]
NumberOf(body, i) == 1 + FoldLeft(LAMBDA n, c : n + Numbers(c), 0, SubSeq(body, 1, i - 1))
GetNextCmdId(body) == [i \in 1 .. Len(body) |-> Numbered(body[i], NumberOf(body, i))]

WriteCommand(command) ==
    CASE command.kind = "Status"  -> SyncMLStatus(command.content)
      [] command.kind = "Alert"   -> SyncMLAlert(command.content)
      [] command.kind = "Get"     -> SyncMLGet(command.content)
      [] command.kind = "Sync"    -> SyncMLSync(command.content)
      [] command.kind = "Container" -> SyncMLContainer(command.content)
      [] command.kind = "Map"     -> SyncMLMap(command.content)
      [] command.kind = "Put"     -> SyncMLPut(command.content)
      [] command.kind = "Results" -> SyncMLResults(command.content)

\* What encodeToXML makes of the message
Write(message) ==
    Element("SyncML",
        <<SyncMLHdr(message.header),
          Element("SyncBody", <<EachOf(GetNextCmdId(message.body), WriteCommand),
                                IF message.final THEN Leaf("Final", NoText) ELSE <<>>>>)>>)
=============================================================================
