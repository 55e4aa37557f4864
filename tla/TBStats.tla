------------------------------- MODULE TBStats -------------------------------
(***************************************************************************)
(* TBStats: the ring in which a token bucket records the moments it had    *)
(* too few tokens.  Its methods, each a critical section of m_lock, are    *)
(* operators on the object's state, a record; the token bucket's modules   *)
(* make steps of them.  An entry is its time stamp and, as a name for its  *)
(* contents, its place in the order of storing.                            *)
(***************************************************************************)
EXTENDS Integers, Sequences, FiniteSetsExt

CONSTANTS
  m_max_statistics,              \* size of the ring
  m_sliding_window_statistics,   \* entries this old are outdated
  MaxTime                        \* bound of the clock

ASSUME TBStatsAssumption ==
  /\ m_max_statistics \in Nat \ {0}
  /\ m_sliding_window_statistics \in Nat
  /\ MaxTime \in Nat

\* An element of the ring that was not written yet.
NoEntry == [number |-> 0, stamp |-> 0]

\* What m_tb_statistics[-1] reads: undefined, any contents at all.
OutOfRing == [number |-> -1, stamp |-> 0]

RingIndex == 0..m_max_statistics - 1

TBStatsInit ==
  [m_tb_statistics     |-> [i \in RingIndex |-> NoEntry],
   m_total_stats       |-> 0,
   m_position          |-> 0,
   m_valid_entry_index |-> -1]

TBStatsTypeOK(s) ==
  /\ s.m_tb_statistics \in [RingIndex -> [number : Nat, stamp : 0..MaxTime]]
  /\ s.m_total_stats \in Nat
  /\ s.m_position \in RingIndex
  /\ s.m_valid_entry_index \in RingIndex \cup {-1}

\* The index goes round, the total does not.
store_stats_entry(s, entry) ==
  LET position == s.m_total_stats % m_max_statistics
  IN [s EXCEPT !.m_position = position,
               !.m_tb_statistics[position] = entry,
               !.m_total_stats = @ + 1]

\* Mutant: the entries are kept after they were collected.
StatsKept(s) == s

\* The ring's contents stay.
reset_stats(s) == [s EXCEPT !.m_total_stats = 0, !.m_position = 0]

\* time_point - stamp in uint64_t: an entry stored after time_point was read
\* is older than any window.
Age(time_point, stamp) ==
  IF stamp <= time_point THEN time_point - stamp
  ELSE MaxTime + m_sliding_window_statistics + 1

\* The first entry of the given indices that lies within the window, or the
\* index unchanged.
FirstValid(s, time_point, indices, unchanged) ==
  LET valid == {i \in indices : Age(time_point, s.m_tb_statistics[i].stamp)
                                  < m_sliding_window_statistics}
  IN IF valid = {} THEN unchanged ELSE Min(valid)

garbage_collection(s, time_point) ==
  LET newest == s.m_tb_statistics[s.m_position].stamp
      wrapped == s.m_total_stats > m_max_statistics
      first == FirstValid(s, time_point,
                 0..(IF wrapped THEN s.m_position ELSE s.m_total_stats) - 1,
                 s.m_valid_entry_index)
  IN IF \/ s.m_total_stats = 0
        \/ Age(time_point, newest) > m_sliding_window_statistics
     THEN [reset_stats(s) EXCEPT !.m_valid_entry_index = -1]
     ELSE [s EXCEPT !.m_valid_entry_index =
            IF wrapped /\ first = 0
            THEN FirstValid(s, time_point, s.m_position..m_max_statistics - 1, 0)
            ELSE first]

\* The indices that collect_stats copies from, in order: up to the newest
\* entry, but without it once the ring went round; from -1 when the garbage
\* collection left no valid index.
IndicesCollected(s) ==
  LET first == s.m_valid_entry_index
      UpTo(a, b) == [k \in 1..(b - a) |-> a + k - 1]
  IN IF s.m_total_stats = 0 THEN <<>>
     ELSE IF s.m_total_stats <= m_max_statistics THEN UpTo(first, s.m_total_stats)
     ELSE IF s.m_position >= first THEN UpTo(first, s.m_position)
     ELSE UpTo(first, m_max_statistics) \o UpTo(0, s.m_position)

\* What is copied: index -1 lies before the ring.
EntriesCollected(s) ==
  LET indices == IndicesCollected(s)
  IN [k \in DOMAIN indices |-> IF indices[k] = -1 THEN OutOfRing
                               ELSE s.m_tb_statistics[indices[k]]]

\* collect_stats leaves the ring empty.
collect_stats(s) == [reset_stats(s) EXCEPT !.m_valid_entry_index = -1]

=============================================================================
