------------------------- MODULE MCChannelPublish -------------------------
(* Small instances of ChannelPublish. *)
EXTENDS ChannelPublish

\* A channel of two registers: one polled and writable, one with events.
Mixed ==
  [registers |-> {"a", "b"}, counters |-> {}, sporadic |-> {"b"},
   timed |-> {}, writable |-> {"a"}, policy |-> "OnlyOnChange"]

\* A polled register with a read period.
Timed(policy) ==
  [registers |-> {"t"}, counters |-> {}, sporadic |-> {},
   timed |-> {"t"}, writable |-> {"t"}, policy |-> policy]

Counter(sporadic) ==
  [registers |-> {"n"}, counters |-> {"n"}, sporadic |-> sporadic,
   timed |-> {}, writable |-> {}, policy |-> "OnlyOnChange"]

PassChannels ==
  {Mixed, Timed("OnlyOnChange"), Timed("SomeUnchanged"), Timed("All"), Counter({})}

EventCounter == {Counter({"n"})}
=============================================================================
