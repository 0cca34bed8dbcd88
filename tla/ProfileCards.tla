----------------------------- MODULE ProfileCards -----------------------------
(***************************************************************************)
(* What the profile routes and the RevenueCat webhook promise about the    *)
(* stored profiles: every profile starts free, the owner changes name and  *)
(* picture, an event changes is_pro, and nobody's change undoes another's. *)
(* ProfileBackend implements this module.                                  *)
(***************************************************************************)
CONSTANTS Owners,   \* users
          Values    \* values of the fields display_name and avatar_url

VARIABLE cards      \* the stored profiles

Card == [id : Owners, display_name : Values, avatar_url : Values, is_pro : BOOLEAN]

CardsInit == cards = {}

\* A registration adds one profile.
Open(c) ==
    /\ cards' = cards \cup {c}
    /\ \A d \in cards : d.id # c.id
    /\ ~c.is_pro

\* The new card differs from the old one in the fields F only.
Change(c, d, F) ==
    /\ \A f \in DOMAIN c \ F : d[f] = c[f]
    /\ cards' = (cards \ {c}) \cup {d}

CardsNext ==
    \/ \E c \in Card : Open(c)
    \/ \E c \in cards, d \in Card :
          Change(c, d, {"is_pro"}) \/ Change(c, d, {"display_name", "avatar_url"})

CardsSpec == CardsInit /\ [][CardsNext]_cards

=============================================================================
