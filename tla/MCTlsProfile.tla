----------------------------- MODULE MCTlsProfile -----------------------------
EXTENDS TlsProfile, TLC

\* "u" is a cipher that crypto/tls does not implement.
MCTLSProfiles == "Intermediate" :> [min |-> 12, ciphers |-> {"c", "d", "u"}]
              @@ "Modern" :> [min |-> 13, ciphers |-> {"c"}]

MCProfiles == {[type |-> "Intermediate", custom |-> Nil],
               [type |-> "Modern", custom |-> Nil],
               [type |-> "Custom", custom |-> [min |-> 11, ciphers |-> {"d", "u"}]],
               [type |-> "Custom", custom |-> [min |-> Error, ciphers |-> {"c"}]]}

MCCiphers == {"c", "d", "u"}
MCKnownCiphers == {"c", "d"}
=============================================================================
