---------------------- MODULE ServerAlertedNotification ----------------------
(***************************************************************************)
(* ServerAlertedNotification.cpp: the notification with which a server     *)
(* asks a client for a session, byte by byte.                              *)
(*                                                                         *)
(* A byte is a number of 0 .. 255.  What is read from a QByteArray is a    *)
(* char, and whether a char is signed is up to the build (x86: yes, ARM:   *)
(* no): signed says which.  A text is a sequence of ASCII characters.  A   *)
(* MIME type is a number: its WSP content type if it has one.              *)
(***************************************************************************)
EXTENDS Integers, Sequences, SequencesExt

DIGEST_SIZE == 16
HEADER_SIZE == 8
MAX_SERVERURI_LENGTH == 255
SYNCALERT_BASE == 200
SYNCMLVERSION == [SYNCML_1_1 |-> 11, SYNCML_1_2 |-> 12]

WspTypes == {3, 6, 7}       \* notes, calendar, contacts
NoMime == 0

\* What is left of a number in a byte, and of a byte in a char
Byte(n) == n % 256
Char(byte, signed) == IF signed /\ byte > 127 THEN byte - 256 ELSE byte

-----------------------------------------------------------------------------
(***************************************************************************)
(* generateSANMessageDS                                                    *)
(***************************************************************************)

\* The digest is looked at by no session: its bytes do not matter
GenerateDigest == [i \in 1 .. DIGEST_SIZE |-> 0]

\* Version, user interaction mode and initiator.  The two low bits of the
\* version are shifted out of their byte
VersionBytes(header) ==
    <<SYNCMLVERSION[header.iVersion] \div 4, 16 * header.iUIMode + 8 * header.iInitiator>>

\* The session id is left at zero
HeaderBytes(header) ==
    VersionBytes(header) \o <<0, 0, 0, 0, 0, Len(header.iServerIdentifier)>>
        \o header.iServerIdentifier

SyncInfoBytes(info) ==
    <<Byte((info.iSyncType - SYNCALERT_BASE) * 16),
      0, 0, IF info.iContentType \in WspTypes THEN info.iContentType ELSE 0,
      Byte(Len(info.iServerURI))>> \o info.iServerURI

BodyBytes(infos) ==
    <<Byte(Len(infos) * 16)>> \o FlattenSeq([i \in DOMAIN infos |-> SyncInfoBytes(infos[i])])

GenerateSANMessageDS(data) ==
    IF Len(data.iHeader.iServerIdentifier) > MAX_SERVERURI_LENGTH THEN <<>>
    ELSE <<GenerateDigest \o HeaderBytes(data.iHeader) \o BodyBytes(data.iSyncInfo)>>

-----------------------------------------------------------------------------
(***************************************************************************)
(* parseSANMessageDS.  The result of a reading is a set, which is empty if *)
(* the parser gives up.                                                    *)
(***************************************************************************)

\* QByteArray::mid, which takes what there is
Mid(bytes, pos, length) ==
    SubSeq(bytes, pos, IF length < 0 \/ pos + length - 1 > Len(bytes) THEN Len(bytes)
                       ELSE pos + length - 1)

\* ( header[0] << 2 ) | ( header[1] >> 6 ): a negative char swamps the rest
VersionNumber(high, low) == IF low < 0 THEN low \div 64 ELSE high * 4 + low \div 64

\* A text, if the whole of it is there
TakeText(bytes, pos, length) == {text \in {Mid(bytes, pos, length)} : Len(text) = length}

ParseHeader(message, signed) ==
    LET header == Mid(message, DIGEST_SIZE + 1, HEADER_SIZE)
        number == VersionNumber(Char(header[1], signed), Char(header[2], signed))
    IN IF Len(message) < DIGEST_SIZE + HEADER_SIZE THEN {}
       ELSE {[iVersion          |-> version,
              iUIMode           |-> (header[2] \div 16) % 4,
              iInitiator        |-> (header[2] \div 8) % 2,
              iServerIdentifier |-> identifier] :
                version    \in {v \in DOMAIN SYNCMLVERSION : SYNCMLVERSION[v] = number},
                identifier \in TakeText(message, DIGEST_SIZE + HEADER_SIZE + 1,
                                        Char(header[8], signed))}

ContentTypeOf(bytes) ==
    IF bytes[2] = 0 /\ bytes[3] = 0 /\ bytes[4] \in WspTypes THEN bytes[4] ELSE NoMime

\* Mutant: the type is taken from the whole byte
ParsedUnshifted(bytes, uri, signed) ==
    [iSyncType    |-> SYNCALERT_BASE + Char(bytes[1], signed),
     iContentType |-> ContentTypeOf(bytes),
     iServerURI   |-> uri]

ParsedSyncInfo(bytes, uri, signed) ==
    [iSyncType    |-> SYNCALERT_BASE + Char(bytes[1], signed) \div 16,
     iContentType |-> ContentTypeOf(bytes),
     iServerURI   |-> uri]

RECURSIVE ParseSyncInfos(_, _, _)
ParseSyncInfos(bytes, n, signed) ==
    IF n <= 0 THEN {<<>>}
    ELSE IF Len(bytes) < 5 THEN {}
    ELSE UNION {{<<ParsedSyncInfo(bytes, uri, signed)>> \o infos :
                    infos \in UNION {ParseSyncInfos(rest, n - 1, signed) :
                                        rest \in {Mid(bytes, 6 + Len(uri), -1)}}} :
                uri \in TakeText(bytes, 6, Char(bytes[5], signed))}

\* Without a number there is a request for all databases, which is refused
ParseBody(body, signed) ==
    IF body = <<>> \/ body[1] \div 16 = 0 THEN {}
    ELSE ParseSyncInfos(Tail(body), Char(body[1], signed) \div 16, signed)

ParseSANMessageDS(message, signed) ==
    UNION {{[iHeader |-> header, iSyncInfo |-> infos] :
               infos \in ParseBody(Mid(message, DIGEST_SIZE + HEADER_SIZE + 1
                                                  + Len(header.iServerIdentifier), -1), signed)} :
           header \in ParseHeader(message, signed)}

=============================================================================
