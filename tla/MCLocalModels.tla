---------------------------- MODULE MCLocalModels ----------------------------
(* The full-local, SpeakerKit and MOSS packs of one file each, and the          *)
(* pipeline composed of the three files.                                       *)
EXTENDS LocalModels

ModelFiles == {"moss", "speaker", "summary"}
PlainPacks == {"full", "speakerkit", "mosspack"}
ExactPacks == {"speakerkit", "mosspack", "pipeline"}
Leftovers == {found \in [ModelFiles -> {"none", "bad"}] :
                \A f, g \in ModelFiles : found[f] = "bad" /\ found[g] = "bad" => f = g}
OwnFiles == {"moss"}
Catalog == [p \in PlainPacks \cup {"pipeline"} |->
              CASE p = "full" -> <<"summary">>
                [] p = "speakerkit" -> <<"speaker">>
                [] p = "mosspack" -> <<"moss">>
                [] OTHER -> <<"moss", "speaker", "summary">>]
=============================================================================
