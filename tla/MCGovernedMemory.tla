-------------------------- MODULE MCGovernedMemory --------------------------
(***************************************************************************)
(* Instances of GovernedMemory for TLC.                                    *)
(***************************************************************************)
EXTENDS GovernedMemory

\* Contents harmless, in the quarantine band (through every channel, or only
\* through a trusted one, rejected otherwise), and over the reject line.
MCScore == [c \in Contents |-> CASE c = "plain"   -> 0
                                 [] c = "flagged" -> 60
                                 [] c = "risky"   -> 80
                                 [] c = "hostile" -> 95]

MCDigests == {<<"sha256", c>> : c \in Contents}
MCSha256  == [c \in Contents |-> <<"sha256", c>>]

\* The guardrail cannot make up its mind about content in the band.
MCAssess == [c \in Contents |-> CASE c = "plain"   -> {FALSE}
                                  [] c = "flagged" -> BOOLEAN
                                  [] c = "risky"   -> BOOLEAN
                                  [] c = "hostile" -> {TRUE}]

MCForever  == [c \in Retentions |-> 0]
MCOneTick  == [c \in Retentions |-> 1]
=============================================================================
