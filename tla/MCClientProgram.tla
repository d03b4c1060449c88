--------------------------- MODULE MCClientProgram ---------------------------
(***************************************************************************)
(* Files for TLC: random choices that need the results of earlier          *)
(* transactions, equal transactions that are sent at once, and one without *)
(* operations.                                                             *)
(***************************************************************************)
EXTENDS ClientProgram

CONSTANTS c1, c2, a, b

Op(type, address, key, times) ==
  [type |-> type, address |-> address, key |-> key, repeat_count |-> times]
Sync(ops)  == [op |-> ops, async |-> FALSE]
Async(ops) == [op |-> ops, async |-> TRUE]

File(initial, cycle, length) ==
  [initial_transaction |-> initial, cycle_transaction |-> cycle,
   cycle_length |-> length]

NeedsResults ==
  {File(<< Sync(<< Op("put", RandomAddress, RandomKey, 0) >>) >>,
        << Sync(<< Op("relative", RandomAddress, RandomPutKey, 2),
                   Op("put", c2, b, 0) >>) >>, 1),
   File(<< Sync(<< Op("put", RandomAddress, RandomKey, 0) >>) >>,
        << Sync(<< Op("get", c1, RandomPutKey, 0), Op("put", c2, b, 0) >>) >>, 2)}

SentAtOnce ==
  File(<< >>,
       << Async(<< Op("put", c1, a, 0), Op("get", c1, a, 0), Op("put", c2, a, 0) >>) >>, 2)

AsksForNothing == File(<< Async(<< >>), Async(<< Op("put", c1, a, 0) >>) >>,
                       << Sync(<< Op("put", c1, b, 0) >>) >>, 1)

\* The only cohort of the second transaction may have to abort it.
NeedsOneResult ==
  File(<< Sync(<< Op("put", c1, a, 0), Op("put", c2, a, 0) >>),
          Sync(<< Op("get", c1, RandomPutKey, 0) >>) >>, << >>, 0)

MCFiles      == NeedsResults \cup {SentAtOnce, AsksForNothing, NeedsOneResult}
MCEqualFiles == {SentAtOnce}
=============================================================================
