----------------------------- MODULE MCAgentBus -----------------------------
(* Small instances of AgentBus for TLC: messages by what they are. *)
EXTENDS AgentBus, TLC

CONSTANTS ada, bob, room, chat, desk,
          mail, urgent, word, other, kick, digest, brief, note, failed

\* Ada has a room and a private chat, Bob a desk.
ThreeWorkers == room :> ada @@ chat :> ada @@ desk :> bob

Fields(to, from, person, lane, principal, steerable, priority, door) ==
    [to |-> to, from |-> from, person |-> person, lane |-> lane,
     principal |-> principal, steerable |-> steerable, priority |-> priority,
     door |-> door]

Mail(to, from, priority) ==
    Fields(to, from, FALSE, "agent", NoPrincipal, TRUE, priority, "wake")
Word(to, p, door) == Fields(to, "user", TRUE, "user", p, TRUE, FALSE, door)
Kick(to, p) == Fields(to, "user", TRUE, "user", p, FALSE, FALSE, "prompt")
Digest(to, door) ==
    Fields(to, "user", FALSE, "background", NoPrincipal, FALSE, FALSE, door)
Note(to) == Fields(to, "user", FALSE, "user", NoPrincipal, FALSE, FALSE, "resumed")
Failed(to) ==
    Fields(to, "system", FALSE, "background", NoPrincipal, TRUE, FALSE, "notice")

AboutAll ==
    mail :> Mail(room, bob, FALSE) @@ urgent :> Mail(room, bob, TRUE)
    @@ word :> Word(room, "p", "prompt") @@ other :> Word(room, "q", "prompt")
    @@ kick :> Kick(room, "p") @@ digest :> Digest(room, "wake")
    @@ brief :> Digest(chat, "direct") @@ note :> Note(room) @@ failed :> Failed(desk)

AboutThese == [m \in Message |-> AboutAll[m]]
NoticeAlways == [m \in Message |-> IF failed \in Message THEN failed ELSE m]
=============================================================================
