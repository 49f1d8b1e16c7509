-------------------------- MODULE MCRoomEndWatcher --------------------------
EXTENDS RoomEndWatcher

\* A duration below the ceiling, and one above it.
MCDurations == {3, 7}

=============================================================================
