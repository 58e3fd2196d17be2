----------------------------- MODULE MCAgentHarness -----------------------------
(***************************************************************************)
(* Instances of AgentHarness for TLC.  Each .cfg picks one family of event  *)
(* shapes and one configuration of the harness.                            *)
(***************************************************************************)
EXTENDS AgentHarness, TLC

CONSTANTS c1, c2

Shape(c, created, scoped, root, owner) ==
    [channel |-> c, created |-> created, scoped |-> scoped, root |-> root,
     owner |-> owner]

\* Plain top-level events of one and of two channels.
OneChannel == {Shape(c1, 1, FALSE, "top", FALSE)}
TwoChannels == OneChannel \cup {Shape(c2, 1, FALSE, "top", FALSE)}

\* Timestamps out of arrival order, as relay replay delivers them.
TwoChannelsReplayed == TwoChannels \cup {Shape(c1, 2, FALSE, "top", FALSE)}

\* Two conversations and scoped requests of one channel, and another channel.
Conversations ==
    TwoChannels \cup {Shape(c1, 1, FALSE, "thread", FALSE), Shape(c1, 1, TRUE, "top", FALSE)}

\* The agents are interchangeable: nothing chooses one by its name.
AgentSymmetry == Permutations(Agents)

=============================================================================
