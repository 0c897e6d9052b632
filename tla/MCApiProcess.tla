---------------------------- MODULE MCApiProcess ----------------------------
EXTENDS ApiProcess, TLC

\* Two spellings of one address.
MCAddresses == {"Ann", "ann"}
MCToLower == [a \in MCAddresses |-> "ann"]

=============================================================================
