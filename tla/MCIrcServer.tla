---------------------------- MODULE MCIrcServer ----------------------------
EXTENDS IrcServer

\* The lists are followed until somebody leaves without being taken off them: on
\* the first channel to their full length, with users who have taken the empty
\* nickname; on several channels with shorter lists of users with names.
FirstChannelOnly == \A c \in Chan : Exists(channels[c]) \/ channel_users[c] # << >> => c = 1
ShortNamedLists ==
    /\ \A c \in Chan : Len(channels[c].members) < MaxListed
    /\ \A a \in MultimapPointers \cup ChannelPointers(channels) : heap[a].nickname # NoNick
ListsBound == clean /\ (FirstChannelOnly \/ ShortNamedLists)

Symmetry == Permutations(Addr) \cup Permutations(Nick)
AllNicks == AnyNick
=============================================================================
