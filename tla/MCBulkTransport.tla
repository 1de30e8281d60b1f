---------------------------- MODULE MCBulkTransport ----------------------------
(* Requests and bounds for checking BulkTransport: one request of each kind  *)
(* the program makes, taken from the blocks of CommandBlocks.                *)
EXTENDS BulkTransport

Blocks == INSTANCE CommandBlocks WITH Byte <- 256

RequestOf(block) == [dir |-> block.dir, len |-> block.len]

(* No data, an answer as long as a status, and a sector in each direction.   *)
AllRequests ==
    {RequestOf(block) : block \in {Blocks!ActEntry(0), Blocks!ActDetach,
                                   Blocks!ActIdentify,
                                   Blocks!ActReadOne(0, TRUE),
                                   Blocks!Write10(0, Blocks!SectorSize)}}
ReadRequests ==
    {RequestOf(block) : block \in {Blocks!ActIdentify,
                                   Blocks!ActReadOne(0, TRUE)}}
PacketSizes == {0, 13, 512}
===============================================================================
