------------------------------- MODULE MCMcp -------------------------------
(* Two servers that list a tool of the same name, called by two runs.      *)
EXTENDS Mcp

MCOffers == [s \in Servers |-> IF s = "files" THEN {"search", "open"} ELSE {"search"}]
MCUses == [c \in Clients |-> IF c = "r1" THEN {"search"} ELSE {"open"}]

=============================================================================
