--------------------------- MODULE MCAlertJournal ---------------------------
(* One journal in three scenes: the same commands over different identities
   of alerts.  Rows are acknowledged, and so pruned, in the first only. *)
EXTENDS AlertJournal

Key(kind, sel, ns, owner, epoch) ==
    [kind |-> kind, window |-> "5h", selector |-> sel,
     ns |-> ns, owner |-> owner, epoch |-> epoch]

TwoNames ==
    {Key("reset", "reset", "legacy", "a", 1), Key("reset", "reset", "", "a", 1)}

(* A cycle: its reset under both namespaces and a threshold under each.  Its
   reset alone, with two channels.  The reset beside the one of the next cycle
   and one of another owner. *)
Scenes == [
    cycle   |-> [keys |-> TwoNames \cup {Key("threshold", "50", "legacy", "a", 1),
                                         Key("threshold", "20", "", "a", 1)},
                 channels |-> {"discord"}],
    merging |-> [keys |-> TwoNames, channels |-> {"discord", "telegram"}],
    owning  |-> [keys |-> {Key("reset", "reset", "", "a", 1), Key("reset", "reset", "", "a", 2),
                           Key("reset", "reset", "", "b", 1)},
                 channels |-> {"discord"}]]

AllKeys     == UNION {Scenes[s].keys : s \in DOMAIN Scenes}
AllChannels == UNION {Scenes[s].channels : s \in DOMAIN Scenes}

VARIABLE scene

(* The alerts of the scene are all there are, and its channels are the ones
   that are configured. *)
InScene ==
    \A k \in AllKeys :
        /\ Present(journal[k]) => k \in Scenes[scene].keys
        /\ \A c \in AllChannels \ Scenes[scene].channels :
               journal[k].ch[c] \notin {"pending", "delivered"}
        /\ journal[k].acked => scene = "cycle"

MCInit == scene \in DOMAIN Scenes /\ Init /\ InScene

MCNext == Next /\ UNCHANGED scene /\ InScene'

MCSpec == MCInit /\ [][MCNext]_<<scene, vars>>
=============================================================================
