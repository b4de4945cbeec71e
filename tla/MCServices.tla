----------------------------- MODULE MCServices -----------------------------
(***************************************************************************)
(* Instances of the modules of the Agent and the services it uses for      *)
(* TLC.  They share no state, so one run checks them side by side: `part'  *)
(* is the one that moves in a behaviour, the others stay in one initial    *)
(* state.                                                                  *)
(***************************************************************************)
EXTENDS AgentRun, ChildTurns, MCContextBudget, ProviderStream,
        Conversations, Memories, ProviderProfiles, McpServers, McpStream

VARIABLE part

Parts == {"agent", "children", "context", "stream", "conversation",
          "memory", "profile", "server", "sse"}

MCInit ==
    /\ part \in Parts
    /\ ArInit /\ ChInit /\ CbInit /\ PsInit /\ ConvInit /\ MemInit
    /\ PfInit /\ McpInit /\ StInit
    /\ part # "stream" => psKind = "openai"
    /\ part # "memory" => memory = [m \in MemIds |-> NoMemory]
    /\ part # "server" => server = NotInstalled

\* All but the moving part stay as they are.
Still(moving) ==
    /\ moving # "agent" => UNCHANGED arVars
    /\ moving # "children" => UNCHANGED chVars
    /\ moving # "context" => UNCHANGED cbVars
    /\ moving # "stream" => UNCHANGED psVars
    /\ moving # "conversation" => UNCHANGED convVars
    /\ moving # "memory" => UNCHANGED memVars
    /\ moving # "profile" => UNCHANGED pfVars
    /\ moving # "server" => UNCHANGED mcpVars
    /\ moving # "sse" => UNCHANGED streamVars

MCNext ==
    /\ UNCHANGED part /\ Still(part)
    /\ \/ part = "agent" /\ ArNext
       \/ part = "children" /\ ChNext
       \/ part = "context" /\ CbNext
       \/ part = "stream" /\ PsNext
       \/ part = "conversation" /\ ConvNext
       \/ part = "memory" /\ MemNext
       \/ part = "profile" /\ PfNext
       \/ part = "server" /\ McpNext
       \/ part = "sse" /\ StNext

mcVars ==
    <<part, arVars, chVars, cbVars, psVars, convVars, memVars, pfVars,
      mcpVars, streamVars>>

MCSpec == MCInit /\ [][MCNext]_mcVars
=============================================================================
