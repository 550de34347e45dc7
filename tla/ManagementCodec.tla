--------------------------- MODULE ManagementCodec ---------------------------
(***************************************************************************)
(* A body of the management API between the program and the wire           *)
(* (management_models.cpp).  The server sends a document, which the SDK    *)
(* decodes and may write back, or the program makes a value of its own.    *)
(* What is read of a document is in ManagementBodies; what a structure     *)
(* holds and how it is written, in ManagementTypes.  A document or a value *)
(* departs from the plain one in one member: absent, null, an empty list,  *)
(* JSON text that does not parse, or a value of an enumeration, or of an   *)
(* element of a list of one, or of a union, that this SDK does not know.   *)
(***************************************************************************)
EXTENDS ManagementBodies

Declared == INSTANCE ManagementTypes

VARIABLES
    schema,   \* the name of the body
    doc,      \* the document the server sent, or none
    value,    \* the SDK's structure
    wire,     \* the document the SDK writes
    stage

codecVars == <<schema, doc, value, wire, stage>>

body == Bodies[schema]
struct == Declared!Structs[schema]

Fields(s) == Declared!Fields(s)
Always(s) == Declared!Always(s)

\* A value of a member that the SDK knows.
Known(b, m) == IF m \in DOMAIN b.enums THEN CHOOSE v \in b.enums[m] : TRUE ELSE "known"

\* The values that tell members apart.
Variations(b, s, m) ==
    {"absent", "null"}
        \cup (IF m \in s.omitted THEN {"empty"} ELSE {})
        \cup (IF m \in DOMAIN b.enums THEN b.enums[m] \cup {"new"} ELSE {})

\* The plain documents of a body: every member, or the required ones alone.
Plain(b) == {[m \in present |-> Known(b, m)] : present \in {b.required, Members(b)}}

\* A document with another value of one member.
Departures(b, s, d, m) ==
    {IF v = "absent" THEN [n \in DOMAIN d \ {m} |-> d[n]]
     ELSE [n \in DOMAIN d \cup {m} |-> IF n = m THEN v ELSE d[n]] : v \in Variations(b, s, m)}

Documents(b, s) ==
    Plain(b) \cup UNION {Departures(b, s, d, m) : d \in Plain(b), m \in Members(b)}
-----------------------------------------------------------------------------
\* from_json.

FromWire(known, w) == IF w \in known THEN w ELSE "unknown"

\* j.at(...).get<T>() throws for a member that is not there or is null; text is
\* a dump of whatever is there.
Undecodable(b, d) ==
    \E m \in b.required : m \notin DOMAIN d \/ (d[m] = "null" /\ m \notin b.raw)

\* What from_json does not assign: a member it does not read, or that the
\* document leaves out.
Unread(b, d, m) ==
    \/ m \notin Members(b) \ b.dropped
    \/ m \notin DOMAIN d
    \/ d[m] = "null" /\ m \notin b.nullable \cup b.required

Decoded(b, s, d) ==
    [m \in Fields(s) |->
        IF Unread(b, d, m) THEN IF m \in b.defaulted THEN "false" ELSE "unset"
        ELSE IF m \in DOMAIN b.enums /\ d[m] # "null" THEN FromWire(b.enums[m], d[m])
        ELSE d[m]]

Decode ==
    /\ stage = "received"
    /\ IF Undecodable(body, doc)
       THEN stage' = "failed" /\ UNCHANGED value
       ELSE stage' = "held" /\ value' = Decoded(body, struct, doc)
    /\ UNCHANGED <<schema, doc, wire>>
-----------------------------------------------------------------------------
\* to_json.

\* send_wire, an unknown variant, or not exactly one member where one is meant.
Refused(s, v) ==
    \/ \E m \in Fields(s) : v[m] = "unknown"
    \/ s.single /\ Cardinality({m \in Fields(s) : v[m] # "unset"}) # 1

\* Text that does not parse is left out, and of a union that is forwarded then
\* nothing is left.
WrittenMembers(s, v) ==
    {m \in Fields(s) :
        /\ m \in Always(s) \/ v[m] # "unset"
        /\ ~(m \in s.omitted /\ v[m] = "empty")
        /\ v[m] # "unparsable"
        /\ ~(s.forwarded /\ v["rest"] = "unparsable")}

Encode ==
    /\ stage = "held"
    /\ IF Refused(struct, value)
       THEN stage' = "refused" /\ UNCHANGED wire
       ELSE stage' = "sent" /\ wire' = [m \in WrittenMembers(struct, value) |-> value[m]]
    /\ UNCHANGED <<schema, doc, value>>

\* The program fills a structure itself.
Own(b, s) ==
    LET plain == {[m \in Fields(s) |-> IF m \in set THEN Known(b, m) ELSE "unset"] :
                    set \in {Always(s), Fields(s)}}
        other(m) == (IF m \in s.optional THEN {"unset"} ELSE {})
                      \cup (IF m \in b.nullable \ b.raw THEN {"null"} ELSE {})
                      \cup (IF m \in s.omitted THEN {"empty"} ELSE {})
                      \cup (IF m \in b.raw THEN {"unparsable"} ELSE {})
                      \cup (IF m \in DOMAIN b.enums THEN {"unknown"} ELSE {})
    IN  plain \cup UNION {{[v EXCEPT ![m] = x] : x \in other(m)} : v \in plain, m \in Fields(s)}

CodecInit ==
    /\ schema \in DOMAIN Bodies
    /\ doc = <<>> /\ value = <<>> /\ wire = <<>> /\ stage = "new"

Receive ==
    /\ stage = "new" /\ doc' \in Documents(body, struct) /\ stage' = "received"
    /\ UNCHANGED <<schema, value, wire>>

Make ==
    /\ stage = "new" /\ value' \in Own(body, struct) /\ stage' = "held"
    /\ UNCHANGED <<schema, doc, wire>>

CodecNext == Receive \/ Make \/ Decode \/ Encode
-----------------------------------------------------------------------------
\* What the SDK reads and writes back is what the server sent, member by member.
\* Three things are not: a null that stands for nothing, the empty list of the
\* bodies whose to_json leaves it out, and a secret that the server wrongly put
\* in a union of known variants: that is never sent back.
WrittenBackAsRead ==
    stage = "sent" /\ doc # <<>> =>
        /\ \A m \in DOMAIN wire :
              IF m \in DOMAIN doc THEN wire[m] = doc[m] \/ (doc[m] = "null" /\ m \in body.defaulted)
              ELSE m \in body.defaulted
        /\ \A m \in DOMAIN doc \ DOMAIN wire :
              \/ doc[m] = "null" /\ m \notin body.nullable
              \/ m = "stray_secret"
              \/ doc[m] = "empty" /\ m \in struct.omitted
        /\ "stray_secret" \notin DOMAIN wire

\* What the SDK writes of the program's own value, it reads back as that value:
\* all but the secrets and the empty lists, and the text that does not parse.
ReadBackAsWritten ==
    stage = "sent" /\ doc = <<>> /\ (\A m \in Fields(struct) : value[m] # "unparsable") =>
        /\ ~Undecodable(body, wire)
        /\ \A m \in Fields(struct) :
              \/ Decoded(body, struct, wire)[m] = value[m]
              \/ m = "stray_secret"
              \/ value[m] = "empty" /\ m \in struct.omitted

\* A value that a later server added, to an enumeration, to the elements of a
\* list of one or to a union of known variants, never costs the answer it came
\* in, and never reaches the wire again, not even as the empty string.  (A union
\* that is forwarded is written back as it came.)
NewValuesAreReadNotSent ==
    /\ stage = "failed" =>
          \E m \in body.required : m \notin DOMAIN doc \/ doc[m] = "null"
    /\ stage = "sent" =>
          \A m \in DOMAIN body.enums \cap DOMAIN wire : wire[m] \in body.enums[m] \cup {"null"}

\* An answer that decodes leaves no member of the structure that to_json writes
\* in any case without a value: no uninitialised number, Boolean or enumeration.
DecodeFillsTheStruct ==
    stage = "held" /\ doc # <<>> => \A m \in Always(struct) : value[m] # "unset"

\* All four, of every body the management API has: its from_json and its
\* to_json agree, member by member.
BodiesSurviveTheTrip ==
    WrittenBackAsRead /\ ReadBackAsWritten /\ NewValuesAreReadNotSent /\ DecodeFillsTheStruct
=============================================================================
