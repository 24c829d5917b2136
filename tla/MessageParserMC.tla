--------------------------- MODULE MessageParserMC ---------------------------
(***************************************************************************)
(* Messages for TLC: between them every command, every optional field that *)
(* the packages of this library fill in, and the device information of     *)
(* both versions of the protocol.                                          *)
(***************************************************************************)
EXTENDS MessageParserProps

W(s) == Word(s)
Listing(s) == [Word(s) EXCEPT !.commas = 2]     \* a text with commas
Header(version, n) ==
    [verDTD |-> DTD(version), verProto |-> W("SyncML/" \o version), sessionID |-> Digits(7),
     msgID |-> Digits(n), targetDevice |-> W("http://server"), sourceDevice |-> W("phone")]
FullHeader(n) ==
    [meta |-> [maxMsgSize |-> Digits(64), maxObjSize |-> Digits(0), EMI |-> <<W("e1"), W("e2")>>],
     respURI |-> W("http://server/1"),
     cred |-> [meta |-> [format |-> W("b64"), type |-> W("auth-md5")], data |-> W("digest")]]
    @@ Header("1.2", n)
C(kind, content) == [kind |-> kind, content |-> content]
Message(header, body, final) == [header |-> header, body |-> body, final |-> final]

Vcard  == [type |-> W("vcard"), version |-> W("2.1")]
Vcard3 == [type |-> W("vcard"), version |-> W("3.0")]
Note   == [type |-> W("note")]
Device == [manufacturer |-> W("maker"), model |-> W("model"), deviceID |-> W("imei")]
Tel    == [name |-> W("TEL"), parameters |-> <<[name |-> W("TYPE"), values |-> <<W("HOME"), W("CELL")>>],
                                              [values |-> <<W("VOICE")>>]>>]
Begin  == [name |-> W("BEGIN"), values |-> <<W("VCARD")>>, size |-> Digits(9), displayName |-> W("begin")]
Stores(version) ==
    <<[sourceURI |-> W("./contacts"), preferredRx |-> Vcard, preferredTx |-> Vcard, rx |-> <<Vcard3>>,
       ctCaps |-> <<[type |-> W("vcard"), properties |-> <<Begin, Tel>>]
                      @@ IF version = "1.2" THEN "version" :> W("2.1") ELSE <<>>>>],
      [sourceURI |-> W("./notes"), preferredTx |-> Note, tx |-> <<Note, Vcard>>,
       ctCaps |-> <<[type |-> W("note"), properties |-> <<[name |-> W("BODY")]>>],
                    [type |-> W("vcard"), properties |-> <<[name |-> W("FN"), type |-> W("chr")]>>]>>]>>
Info(version, role) ==
    [version |-> version, device |-> Device, stores |-> Stores(version), role |-> role]
Answer(n, m) == [msgRef |-> Digits(n), cmdRef |-> Digits(m)]

Anchor(last, next) == [anchor |-> (IF last = "" THEN <<>> ELSE "last" :> W(last)) @@ [next |-> W(next)]]
Slow == C("Alert", [data |-> Digits(201),
                    items |-> <<[target |-> W("./c"), source |-> W("./contacts"),
                                 meta |-> Anchor("", "20")]>>])
Fast == C("Alert", [data |-> Digits(200), correlator |-> W("a"),
                    items |-> <<[target |-> W("./n"), source |-> W("./notes"), meta |-> Anchor("10", "20")],
                                [target |-> W("./c"), data |-> W("x")]>>])
Challenge == C("Status",
    [cmd |-> W("SyncHdr"), data |-> Digits(401), targetRef |-> W("http://server"), sourceRef |-> W("phone"),
     chal |-> [meta |-> [type |-> W("auth-md5"), format |-> W("b64"), nextNonce |-> W("nonce")]]]
    @@ Answer(1, 0))
Answered == C("Status", [cmd |-> W("Alert"), data |-> Digits(200), nextAnchor |-> W("20"),
                         items |-> <<[source |-> W("./contacts"), data |-> W("ok")]>>] @@ Answer(1, 3))

Initialization(version) ==
    Message(IF version = "1.2" THEN FullHeader(1) ELSE Header("1.1", 1),
            <<C("Put", Info(version, "client")),
              C("Get", [meta |-> [type |-> DevInfType], items |-> <<[target |-> DevInfPath(version)]>>]),
              Slow>>, TRUE)
Reply == Message(Header("1.2", 1),
                 <<Challenge, Answered, C("Results", Info("1.1", "server") @@ Answer(1, 2)), Fast>>, TRUE)
Both == Message(Header("1.2", 1), <<Fast, C("Put", Info("1.2", "server")),
                                    C("Results", Info("1.1", "server") @@ Answer(1, 2))>>, TRUE)
Changes(text) == Message(Header("1.2", 2),
    <<C("Sync", [target |-> W("./c"), source |-> W("./contacts"), numberOfChanges |-> Digits(3),
        commands |->
          <<[commandType |-> "Add", meta |-> [type |-> W("vcard"), version |-> W("2.1"), size |-> Digits(9)],
             items |-> <<[source |-> W("1"), sourceParent |-> W("0"), data |-> text, moreData |-> TRUE]>>],
            [commandType |-> "Replace", meta |-> [type |-> W("vcard"), format |-> W("b64")],
             items |-> <<[target |-> W("2"), data |-> W("y")]>>],
            [commandType |-> "Delete", items |-> <<[source |-> W("3")], [source |-> W("4")]>>]>>])>>, FALSE)
Mappings == Message(Header("1.2", 3),
    <<C("Status", [cmd |-> W("Sync"), data |-> Digits(200)] @@ Answer(2, 1)),
      C("Map", [target |-> W("./c"), source |-> W("./contacts"),
                mapItems |-> <<[target |-> W("g1"), source |-> W("1")],
                               [target |-> W("g2"), source |-> W("2")]>>]),
      C("Container", [commandType |-> "Atomic",
                      subCommands |-> <<[commandType |-> "Delete", cmdId |-> Digits(9),
                                         items |-> <<[source |-> W("5")]>>]>>])>>, TRUE)
XmlText == Xml(Element("m", <<Leaf("title", W("t")), Leaf("text", W("n"))>>))
Plain   == Changes(Listing("x"))

MCScripts == <<<<Initialization("1.2")>>, <<Initialization("1.1")>>, <<Reply, Plain>>, <<Both>>,
               <<Changes(XmlText), Mappings>>>>

\* The tokens of the XML that is the data of an item
InXml(tokens, i) ==
    \E j \in 2 .. i : /\ tokens[j].tok = "start" /\ tokens[j].name # "DevInf"
                      /\ tokens[j - 1] = Start("Data")
                      /\ End(tokens[j].name) \notin {tokens[k] : k \in j .. i}
\* One token in thirteen, outside of that XML
Tokens(tokens, n) == {i \in 1 .. Len(tokens) - 1 : i % 13 = n /\ ~InXml(tokens, i)}
MCCuts(tokens)    == Tokens(tokens, 0)
MCStains(tokens)  == {i \in Tokens(tokens, 1) : tokens[i].tok = "chars"}
\* Before an element of the header or the body, beside these two, and before the
\* first type of the capabilities of 1.1
MCStrange(tokens) ==
    {i \in Tokens(tokens, 2) : tokens[i + 1].tok = "start" /\ ~InXml(tokens, i + 1)}
    \cup {i \in 1 .. Len(tokens) : \/ tokens[i] \in {Start("SyncML"), End("SyncHdr"), End("SyncBody")}
                                   \/ i > 1 /\ tokens[i - 1] = End("DataStore")
                                            /\ tokens[i] = Start("CTCap")}
=============================================================================
