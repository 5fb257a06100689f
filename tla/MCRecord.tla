------------------------------ MODULE MCRecord ------------------------------
EXTENDS Record
CONSTANTS t1, t2
TurnSymmetry == Permutations(Turn)
MCRead ==
    {[recon |-> "infrastructure" :> "AWS",
      signals |-> <<[field |-> "stage", value |-> "Series B+"],
                    [field |-> "infrastructure", value |-> "Azure"]>>],
     [recon |-> <<>>, signals |-> <<[field |-> "product_type", value |-> "Platform"]>>]}
Says(opens, rest, hedged) ==
    [question |-> FALSE, opens |-> opens, rest |-> rest, hedged |-> hedged, long |-> FALSE]
MCMessage == {Says("yes", None, FALSE), Says("no", None, FALSE),
              Says("no", "Series A", FALSE), Says("other", None, FALSE)}
MCCorrection == {"series a"}
MCRegister ==
    <<[id |-> "well_architected_partner", title |-> "Well-Architected", kind |-> "expr",
       trigger |-> {Present("infrastructure")}],
      [id |-> "founders_hub", title |-> "Founders Hub", kind |-> "expr",
       trigger |-> PROGRAMS["founders_hub"]],
      [id |-> "cap-drata", title |-> "Drata", kind |-> "gaps", gaps |-> {"soc2"}]>>
=============================================================================
