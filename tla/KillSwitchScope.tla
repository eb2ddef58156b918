-------------------------- MODULE KillSwitchScope ---------------------------
(***************************************************************************)
(* What a kill switch covers.  The code answers the question five times:   *)
(* KillSwitch::matches (ingest), exclusion_for_channel with the WHERE of   *)
(* repo::claim (claim loops), the scope arms of repo::claim_for_scope      *)
(* (release drains pin a channel, discards do not) and blast_radius (the   *)
(* number shown to the operator before engaging).                          *)
(*                                                                         *)
(* A scope_key is text; what the code tells apart is which of its parsers  *)
(* accept it, so a key is a channel name, a producer id, a producer and a  *)
(* channel, a campaign id, NULL, or text that no parser accepts.           *)
(***************************************************************************)
EXTENDS Integers

CONSTANTS
    Channels,       \* channel names
    Producers,      \* producer ids
    Campaigns,      \* campaign ids
    Garbage,        \* a scope_key that is none of the above
    None            \* SQL NULL

ASSUME ScopeAssumption ==
    /\ None \notin Channels \cup Producers \cup Campaigns \cup {Garbage}
    /\ None \notin Producers \X Channels

Scopes == {"global", "channel", "producer", "producer_channel", "campaign"}

Keys == Channels \cup Producers \cup (Producers \X Channels) \cup Campaigns
            \cup {Garbage, None}

\* The columns of a kill_switch row that a refresh reads and anything compares.
SwitchRow == [scope : Scopes, key : Keys, on_queued : {"hold", "discard"}]

\* The columns of an outbox row that a scope is compared with.
Target == [channel : Channels, producer : Producers, campaign : Campaigns \cup {None}]

producer_id(s) == IF s.key \in Producers THEN s.key ELSE None

producer_channel_parts(s) == IF s.key \in Producers \X Channels THEN s.key ELSE None

matches(s, t) ==
    CASE s.scope = "global"   -> TRUE
      [] s.scope = "channel"  -> s.key = t.channel
      [] s.scope = "producer" -> producer_id(s) # None /\ producer_id(s) = t.producer
      [] s.scope = "producer_channel" ->
            /\ producer_channel_parts(s) # None
            /\ producer_channel_parts(s) = <<t.producer, t.channel>>
      [] s.scope = "campaign" -> t.campaign # None /\ s.key = t.campaign

\* Broken variant: a producer's switch for one channel blocks it on every channel.
exclusion_any_channel(S, ch) ==
    LET of(scope) == {s \in S : s.scope = scope}
    IN  [blocked_entirely |->
            of("global") # {} \/ \E s \in of("channel") : s.key = ch,
         blocked_producer_ids |->
            {producer_id(s) : s \in {s \in of("producer") : producer_id(s) # None}}
                \cup {producer_channel_parts(s)[1] :
                        s \in {s \in of("producer_channel") : producer_channel_parts(s) # None}},
         blocked_campaign_ids |->
            {s.key : s \in {s \in of("campaign") : s.key # None}}]

exclusion_for_channel(S, ch) ==
    LET of(scope) == {s \in S : s.scope = scope}
        pairs == {s \in of("producer_channel") :
                    /\ producer_channel_parts(s) # None
                    /\ producer_channel_parts(s)[2] = ch}
    IN  [blocked_entirely |->
            of("global") # {} \/ \E s \in of("channel") : s.key = ch,
         blocked_producer_ids |->
            {producer_id(s) : s \in {s \in of("producer") : producer_id(s) # None}}
                \cup {producer_channel_parts(s)[1] : s \in pairs},
         blocked_campaign_ids |->
            {s.key : s \in {s \in of("campaign") : s.key # None}}]

\* The exclusion's part in the WHERE of claim and of claim_for_scope.
claimable(ex, t) ==
    /\ ~ ex.blocked_entirely
    /\ t.producer \notin ex.blocked_producer_ids
    /\ t.campaign = None \/ t.campaign \notin ex.blocked_campaign_ids

\* The channel clause of a scope that names a channel: a pinned query compares
\* the pin with the switch's channel and returns nothing when they differ.
OnChannel(ch, pin, t) == IF pin = None THEN t.channel = ch ELSE pin = ch

\* claim_for_scope's own conditions on a row, with its optional channel pin.
in_scope(s, pin, t) ==
    /\ pin = None \/ t.channel = pin
    /\ CASE s.scope = "global"   -> TRUE
         [] s.scope = "channel"  -> s.key # None /\ OnChannel(s.key, pin, t)
         [] s.scope = "producer" -> producer_id(s) # None /\ t.producer = producer_id(s)
         [] s.scope = "producer_channel" ->
                /\ producer_channel_parts(s) # None
                /\ OnChannel(producer_channel_parts(s)[2], pin, t)
                /\ t.producer = producer_channel_parts(s)[1]
         [] s.scope = "campaign" -> s.key # None /\ t.campaign = s.key

\* The rows blast_radius counts (its cancelled_at IS NULL apart).
blast_radius(s, t) ==
    CASE s.scope = "global"   -> TRUE
      [] s.scope = "channel"  -> s.key # None /\ t.channel = s.key
      [] s.scope = "producer" -> producer_id(s) # None /\ t.producer = producer_id(s)
      [] s.scope = "producer_channel" ->
            /\ producer_channel_parts(s) # None
            /\ t.producer = producer_channel_parts(s)[1]
            /\ t.channel = producer_channel_parts(s)[2]
      [] s.scope = "campaign" -> s.key # None /\ t.campaign = s.key
=============================================================================
