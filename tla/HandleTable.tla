----------------------------- MODULE HandleTable -----------------------------
(***************************************************************************)
(* The tables of the Connector, subscribers_ and publishers_: vectors of   *)
(* handles.  Of an entry, handle_id is unique, params is its topic_params, *)
(* compared by value, and ros the shared ROS subscription or publisher.    *)
(***************************************************************************)
EXTENDS Naturals, SequencesExt

\* The entries with equal params.
Matches(entries, p) == {i \in DOMAIN entries : entries[i].params = p}

First(indices) == CHOOSE i \in indices : \A j \in indices : i <= j

\* get_subscriber_by_params() and get_publisher_by_params() return the first.
FirstMatch(entries, p) == entries[First(Matches(entries, p))]

\* The functions subscribe_to_topic() and advertise_topic() return erase the
\* first entry with their handle_id.
Without(entries, id) ==
    LET found == {i \in DOMAIN entries : entries[i].handle_id = id}
    IN  IF found = {} THEN entries ELSE RemoveAt(entries, First(found))

\* What calling several of them leaves: the other entries, in their order.
WithoutAll(entries, ids) ==
    LET kept == {i \in DOMAIN entries : entries[i].handle_id \notin ids}
        positions == 1 .. Cardinality(kept)
        order == CHOOSE f \in [positions -> kept] :
                    \A k, l \in positions : k < l => f[k] < f[l]
    IN  [k \in positions |-> entries[order[k]]]

\* The ROS subscriptions or publishers that the entries keep alive.
Held(entries) == {entries[i].ros : i \in DOMAIN entries}
=============================================================================
