-------------------------- MODULE MCNotifications --------------------------
(* The notifications of playlists and milestones on the chain in use.      *)
EXTENDS Notifications

ListsAndMilestones == {{"newList", "publish", "add", "milestone"}}
============================================================================
