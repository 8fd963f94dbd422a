----------------------------- MODULE MfxXmlParser -----------------------------
(***************************************************************************)
(* MfxXmlParser (c2_utils/src/mfx_c2_xml_parser.cpp): the table of the     *)
(* codecs the store gets from the XML configuration.  Expat calls the      *)
(* handlers element by element; an Include element makes its handler read  *)
(* another file, elements and all, before it returns.                      *)
(*                                                                         *)
(* The documents are the environment: any nesting the format allows.       *)
(***************************************************************************)
EXTENDS Naturals, Sequences, SequencesExt

CONSTANTS Codecs,       \* the values of the attribute "name" of a MediaCodec
          MaxElements,  \* bound: elements read
          MaxDepth      \* bound: elements open at a time

VARIABLES
  parsingStatus,   \* m_parsingStatus
  section,         \* m_currentSection
  sectionStack,    \* m_sectionStack
  codecMap,        \* m_codecMap, per codec <<>> or its properties
  currentCodec,    \* m_currentCodec
  open,            \* the elements open, outermost first; "file" is where an included file begins
  elements,        \* how many were read
  listed           \* what the documents say: per codec <<>> or its kind and its limits
xmlVars == <<parsingStatus, section, sectionStack, codecMap, currentCodec, open, elements, listed>>

DefaultInstances == 32
Properties(encoder) == [encoder |-> encoder, instances |-> 0, lowPower |-> FALSE]

Init == /\ parsingStatus = "ok" /\ section = "toplevel" /\ sectionStack = <<>>
        /\ codecMap = [c \in Codecs |-> <<>>] /\ currentCodec = <<>>
        /\ open = <<>> /\ elements = 0
        /\ listed = [c \in Codecs |-> <<>>]

Parent == IF open = <<>> THEN "file" ELSE Last(open)
Inside(marks) == \E i \in DOMAIN open : open[i] \in marks
Starts(element) == /\ parsingStatus = "ok" /\ elements < MaxElements /\ Len(open) < MaxDepth
                   /\ elements' = elements + 1
                   /\ open' = Append(open, element)

-----------------------------------------------------------------------------
(* startElementHandler *)

Group == [Decoders |-> "decoders", Encoders |-> "encoders"]

\* Decoders, Encoders, and elements the parser does not know (MediaCodecs, Included, Type).
StartGroup(element) ==
    /\ Parent \in {"file", "Other"}
    /\ element = "Other" \/ ~Inside(DOMAIN Group)
    /\ Starts(element)
    /\ section' = IF section = "toplevel" /\ element \in DOMAIN Group THEN Group[element]
                  ELSE section
    /\ UNCHANGED <<parsingStatus, sectionStack, codecMap, currentCodec, listed>>

\* The kind a codec has in the document: that of the element it stands in.
Encoder == Inside({"Encoders"})

\* addMediaCodecFromAttributes: without a name, with another attribute or with a name that is
\* in the table the parsing ends.
StartMediaCodec(name, attributes) ==
    /\ Parent \in {"Decoders", "Encoders"} \/ (Parent \in {"file", "Other"} /\ Inside(DOMAIN Group))
    /\ ~Inside({"MediaCodec"})
    /\ Starts("MediaCodec")
    /\ LET added == attributes = "good" /\ codecMap[name] = <<>>
           encoder == section = "encoders"
       IN IF section \in {"decoders", "encoders"}
          THEN /\ parsingStatus' = IF added THEN "ok" ELSE "bad"
               /\ section' = IF encoder THEN "encoder" ELSE "decoder"
               /\ codecMap' = IF added THEN [codecMap EXCEPT ![name] = <<Properties(encoder)>>]
                              ELSE codecMap
               /\ currentCodec' = IF added THEN <<name>> ELSE currentCodec
          ELSE UNCHANGED <<parsingStatus, section, codecMap, currentCodec>>
    /\ listed' = IF attributes = "good" THEN [listed EXCEPT ![name] = <<Properties(Encoder)>>]
                 ELSE listed
    /\ UNCHANGED sectionStack

\* addLimits; an error it returns is ignored.
StartLimit(field, value) ==
    /\ Parent = "MediaCodec"
    /\ Starts("Limit")
    /\ codecMap' = IF section \in {"decoder", "encoder"}
                   THEN [codecMap EXCEPT ![currentCodec[1]][1][field] = value] ELSE codecMap
    /\ listed' = [listed EXCEPT ![currentCodec[1]][1][field] = value]
    /\ UNCHANGED <<parsingStatus, section, sectionStack, currentCodec>>

\* include and parse: the file is missing, or its name is not allowed, or it is read first.
StartInclude(file) ==
    /\ Parent \in {"file", "Other", "Decoders", "Encoders"}
    /\ parsingStatus = "ok" /\ elements < MaxElements /\ Len(open) + 1 < MaxDepth
    /\ elements' = elements + 1
    /\ open' = open \o <<"Include", "file">>
    /\ parsingStatus' = CASE file = "read" -> "ok" [] file = "missing" -> "notfound"
                          [] file = "refused" -> "bad"
    /\ UNCHANGED <<section, sectionStack, codecMap, currentCodec, listed>>

\* Slip: the section of the file is lost.
KeptNot(stack) == stack

Kept(stack) == Append(stack, section)

\* The included file is at its end: the section is kept for the end of the element.
EndOfFile ==
    /\ parsingStatus = "ok" /\ open # <<>> /\ Last(open) = "file"
    /\ open' = Front(open)
    /\ sectionStack' = Kept(sectionStack)
    /\ section' = "include"
    /\ UNCHANGED <<parsingStatus, codecMap, currentCodec, elements, listed>>

-----------------------------------------------------------------------------

\* endElementHandler
EndElement ==
    /\ parsingStatus = "ok" /\ open # <<>> /\ Last(open) # "file"
    /\ open' = Front(open)
    /\ LET name == Last(open)
           back == name = "Include" /\ section = "include" /\ sectionStack # <<>>
           leaves == \/ name \in DOMAIN Group /\ section = Group[name]
                     \/ name = "MediaCodec" /\ section \in {"decoder", "encoder"}
       IN /\ section' = CASE back -> Last(sectionStack)
                          [] leaves /\ name # "MediaCodec" -> "toplevel"
                          [] leaves /\ section = "decoder" -> "decoders"
                          [] leaves /\ section = "encoder" -> "encoders"
                          [] OTHER -> section
          /\ sectionStack' = IF back THEN Front(sectionStack) ELSE sectionStack
    /\ UNCHANGED <<parsingStatus, codecMap, currentCodec, elements, listed>>

\* Expat refuses the document, or it cannot be read.
Malformed == /\ parsingStatus = "ok"
             /\ parsingStatus' = "bad"
             /\ UNCHANGED <<section, sectionStack, codecMap, currentCodec, open, elements, listed>>

Next == \/ \E element \in {"Decoders", "Encoders", "Other"} : StartGroup(element)
        \/ \E name \in Codecs, attributes \in {"good", "bad"} : StartMediaCodec(name, attributes)
        \/ StartLimit("instances", 2)
        \/ StartLimit("lowPower", TRUE)
        \/ \E file \in {"read", "missing", "refused"} : StartInclude(file)
        \/ EndOfFile \/ EndElement \/ Malformed

Spec == Init /\ [][Next]_xmlVars

\* getKind, getConcurrentInstances and getLowPowerMode, which the store asks.
Config(name) ==
    LET found == codecMap[name] # <<>>
        codec == codecMap[name][1]
    IN [kind |-> IF ~found THEN "other" ELSE IF codec.encoder THEN "encoder" ELSE "decoder",
        instances |-> IF ~found \/ codec.instances = 0 THEN DefaultInstances ELSE codec.instances,
        lowPower |-> found /\ codec.lowPower]

-----------------------------------------------------------------------------
(* Properties *)

XmlTypeOK ==
    /\ parsingStatus \in {"ok", "bad", "notfound"}
    /\ section \in {"toplevel", "decoders", "decoder", "encoders", "encoder", "include"}
    /\ \A c \in Codecs : Len(codecMap[c]) <= 1
    /\ elements <= MaxElements /\ Len(open) <= MaxDepth

\* The section the parser believes it is in is the one the elements open say, through
\* included files and back (startElementHandler, endElementHandler, include).
SectionFollowsElements ==
    parsingStatus = "ok" =>
      section = IF open # <<>> /\ Last(open) = "Include" THEN "include"
                ELSE IF ~Inside(DOMAIN Group) THEN "toplevel"
                ELSE IF Inside({"MediaCodec"}) THEN IF Encoder THEN "encoder" ELSE "decoder"
                ELSE IF Encoder THEN "encoders" ELSE "decoders"

\* Every codec of the documents is in the table with the kind and the limits they give it.
TableIsTheDocument == parsingStatus = "ok" => codecMap = listed
=============================================================================
