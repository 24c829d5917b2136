------------------------- MODULE MessageParserProps -------------------------
(***************************************************************************)
(* What a session may expect of the messages it takes: that they are what  *)
(* the other side's element classes wrote.                                 *)
(***************************************************************************)
EXTENDS MessageParser

LOCAL INSTANCE SequencesExt

(***************************************************************************)
(* What is to be read of a command: the params structures it was written   *)
(* from, but for four things.  The anchor of a status comes as the XML     *)
(* data of an item, a challenge is flagged, the number of a type of        *)
(* synchronization is a number, and the device information is in the       *)
(* structures of the receiving side.                                       *)
(***************************************************************************)
Without(o, fields) == [f \in DOMAIN o \ fields |-> o[f]]

ExpectedStatus(s) ==
    LET items == (IF "nextAnchor" \in DOMAIN s THEN <<[data |-> Xml(NextAnchor(s))]>> ELSE <<>>)
                 \o Get(s, "items", <<>>)
    IN  (IF items = <<>> THEN <<>> ELSE "items" :> items)
        @@ (IF "chal" \in DOMAIN s THEN "hasChal" :> TRUE ELSE <<>>)
        @@ Without(s, {"nextAnchor"})

\* The formats a store lists, and in 1.1 the capabilities of these
TypesOf(store) ==
    {f.type : f \in {store[p] : p \in DOMAIN store \cap {"preferredRx", "preferredTx"}}
                    \cup UNION {ToSet(Get(store, p, <<>>)) : p \in {"rx", "tx"}}}

\* Capabilities of the same type are those of one type, whichever store has
\* them, and the parameters of a property are the values of a single one
Unnamed(p) ==
    LET values == FlattenSeq([i \in 1 .. Len(Get(p, "parameters", <<>>))
                                  |-> Get(p.parameters[i], "values", <<>>)])
    IN  IF values = <<>> THEN Without(p, {"parameters"})
        ELSE [p EXCEPT !.parameters = <<"values" :> values>>]
AllCaps(stores) == FlattenSeq([i \in 1 .. Len(stores) |-> CapsOf(stores[i])])
MergedCap(stores, type) ==
    LET Same == SelectSeq(AllCaps(stores), LAMBDA c : c.type = type)
        properties == FlattenSeq([i \in 1 .. Len(Same) |-> Get(Same[i], "properties", <<>>)])
    IN  [type |-> type, properties |-> [i \in 1 .. Len(properties) |-> Unnamed(properties[i])]]
OfInterest(stores, store) ==
    LET all   == AllCaps(stores)
        types == [i \in 1 .. Len(all) |-> all[i].type]
        First == {i \in 1 .. Len(types) : \A j \in 1 .. i - 1 : types[j] # types[i]}
        order == SelectSeq([i \in 1 .. Len(types) |-> IF i \in First THEN types[i] ELSE NoText],
                           LAMBDA t : t \in TypesOf(store))
    IN  [i \in 1 .. Len(order) |-> MergedCap(stores, order[i])]

ExpectedStore(version, stores, store) ==
    LET caps == IF version = "1.2" THEN CapsOf(store) ELSE OfInterest(stores, store)
    IN  (IF caps = <<>> THEN <<>> ELSE "ctCaps" :> caps)
        @@ ("syncCaps" :> SyncTypes) @@ Without(store, {"ctCaps"})

ExpectedDevInf(p) ==
    [source |-> DevInfPath(p.version),
     devInfo |->
         [UTC |-> TRUE, supportsLargeObjs |-> TRUE,
          supportsNumberOfChanges |-> TRUE,
          datastores |-> [i \in 1 .. Len(p.stores) |->
                             ExpectedStore(p.version, p.stores, p.stores[i])]]
         @@ p.device]

Expected(command) ==
    LET o == command.content
        kind == IF command.kind \in {"Alert", "Get", "Container"} THEN "Command" ELSE command.kind
    IN  [kind |-> kind, content |->
            CASE kind = "Command" -> o @@ [commandType |-> command.kind]
              [] kind = "Status"  -> ExpectedStatus(o)
              [] kind = "Put"     -> [cmdId |-> o.cmdId, meta |-> [type |-> DevInfType],
                                      devInf |-> ExpectedDevInf(o)]
              [] kind = "Results" -> [cmdId |-> o.cmdId, msgRef |-> o.msgRef, cmdRef |-> o.cmdRef,
                                      targetRef |-> DevInfPath(o.version),
                                      meta |-> [type |-> DevInfType],
                                      devInf |-> ExpectedDevInf(o)]
              [] OTHER            -> o]

ExpectedFragments(message) ==
    LET body  == GetNextCmdId(message.body)
        Infos == SelectSeq(body, LAMBDA c : c.kind \in {"Put", "Results"})
        Rest  == SelectSeq(body, LAMBDA c : c.kind \notin {"Put", "Results"})
        All   == Reverse(Infos) \o Rest
    IN  <<[kind |-> "SyncHdr", content |-> message.header]>>
        \o [i \in 1 .. Len(All) |-> Expected(All[i])]

ExpectedOf == [s \in 1 .. Len(Scripts) |->
                  [i \in 1 .. Len(Scripts[s]) |-> ExpectedFragments(Scripts[s][i])]]

AsWritten(n) == [fragments |-> ExpectedOf[script][n], last |-> Sent[n].final]

\* The messages without a comma in any text
CommaFree(message) ==
    \A t \in ToSet(Write(message)) : t.tok = "chars" => t.text.commas = 0
CommaFreeOf == [s \in 1 .. Len(Scripts) |-> [i \in 1 .. Len(Scripts[s]) |-> CommaFree(Scripts[s][i])]]

Takes  == session'.taken # session.taken
Purges == ~parser.new       \* of a message that is taken: it was purged before

(***************************************************************************)
(* The session takes every message as it was written, command by command   *)
(* and field by field, the device information before the commands that     *)
(* rely on it and the last message of a package as such: nothing of the    *)
(* message before it, of a reading that was broken off, or of an element   *)
(* that is unknown gets in.  This is not so of a message that was purged   *)
(* and has commas in it: BaseTransport.h:84 says that illegal characters   *)
(* are removed from it, but the expression for them (BaseTransport.cpp:396)*)
(* has a comma among its ranges of codes, so these are removed too.        *)
(***************************************************************************)
ReadsAsWritten ==
    [][Takes /\ (Purges => CommaFreeOf[script][arrived])
          => session'.taken = Append(session.taken, AsWritten(arrived))]_vars

(***************************************************************************)
(* A message that arrives whole is taken, whatever control characters are  *)
(* in its texts and unknown elements between its own: the parser gives up  *)
(* on one that was cut, or has an unknown element where the code does not  *)
(* go on after any (beside the header and the body, or before the first    *)
(* type of the capabilities of 1.1, which come after the stores).          *)
(***************************************************************************)
Stranger == Start("Stranger")
OutOfPlace(data, i) ==
    /\ data[i] = Stranger
    /\ \/ data[i - 1] \in {Start("SyncML"), End("SyncHdr"), End("SyncBody")}
       \/ data[i - 2] = End("DataStore") /\ data[i - 1] = Start("CTCap")
RefusedWithCause ==
    [][frames # <<>> /\ session'.state = "aborted"
          => LET data == transport.device.data
             IN  Last(data) # End("SyncML") \/ \E i \in 2 .. Len(data) : OutOfPlace(data, i)]_vars

(***************************************************************************)
(* A message that the parser has begun is either taken or ends the         *)
(* session: the parser does not stay in a message that is cut, nor does    *)
(* removing control characters and parsing again go round in circles.      *)
(***************************************************************************)
EveryMessageEnds == frames # <<>> ~> (session.state = "aborted" \/ Len(session.taken) = arrived)

=============================================================================
