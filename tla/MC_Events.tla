------------------------------ MODULE MC_Events ------------------------------
\* A node and its parent, both records; subscriptions to the parent, the
\* "value" of it among them, and to the property of the node.
EXTENDS Events

CONSTANTS node, a

Top == <<>>
Node == <<node>>

MCRecords == {Top, Node}

Sub(p, t) == [path |-> p, type |-> t]

MCKeys == {node, a}

MCSubscriptions ==
  {Sub(Top, "value"), Sub(Top, "child_added"), Sub(Top, "child_changed"),
   Sub(Top, "mutated"), Sub(Node \o <<a>>, "value")}
==============================================================================
