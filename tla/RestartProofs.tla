--------------------------- MODULE RestartProofs ---------------------------
(***************************************************************************)
(* Proofs about what outlives the process of the BFF, for any runs, steps, *)
(* sessions and bounds.                                                    *)
(*                                                                         *)
(* About HostRestart: the types, what can be let go of after a crash, what *)
(* the roster says, and that neither a restart nor a player begins a run   *)
(* twice.                                                                  *)
(*                                                                         *)
(* About StartupRuns: that steps are taken in order and no more often than *)
(* they may be, and that no order is given beside one whose outcome is not *)
(* known.                                                                  *)
(***************************************************************************)
EXTENDS HostRestart, StartupRuns, TLAPS

-----------------------------------------------------------------------------
(* The roster and the journal of sessions.                                 *)

\* While the process lives the journal has what save() would write but for what a save that
\* failed has left out, and a process that is down remembers nothing.
FilesKept ==
  /\ host # "down" => Saved(pending, held) \ unsaved \subseteq sessionFile
  /\ host = "down" => /\ pending = {} /\ unsaved = {} /\ busy = NoBot
                      /\ \A r \in Bots : /\ held[r] = 0 /\ ask[r] = NotAsked
                                         /\ rec[r] = "none" /\ todo[r] = "none"

\* The process remembers every session that is not astray, so that the next save that does
\* not fail writes it down.
Remembered ==
  host # "down" => \A r \in Bots : online[r] # 0 /\ ~Done(r) /\ <<r, online[r]>> \notin astray
                                     => <<r, online[r]>> \in Saved(pending, held)

\* Only a run that is selecting asks, and the session its select began is the pilot's
\* unless one nobody is told of has taken him over.
AskedBySelecting ==
  \A r \in Bots : /\ ask[r] # NotAsked => rec[r] = "selecting"
                  /\ Done(r) /\ online[r] # 0 => online[r] = ask[r] \/ <<r, online[r]>> \in astray

\* Nothing on disk or read from it would bring a stopped run back.
StoppedStay ==
  \A r \in stopped : rec[r] = "none" /\ todo[r] # "run" /\ rosterFile[r] # "run"

\* A select that has its session is the selecting run's.
LEMMA DoneSelects ==
  ASSUME AskedBySelecting, NEW r \in Bots, Done(r)
  PROVE  rec[r] = "selecting"
<1>1. ask[r] # NotAsked
  <2>1. \A n \in 1..MaxSessions : n # 0 BY RestartAssumption
  <2> QED BY <2>1 DEF Done, NotAsked
<1> QED BY <1>1 DEF AskedBySelecting

\* What each step does to the types.
LEMMA RestartTypeStep ==
  ASSUME RestartTypeOK, RestartNext
  PROVE  RestartTypeOK'
<1>1. CASE Boots
  BY <1>1 DEF Boots, RestartTypeOK, files, game, ghosts, rosterDisk, journalDisk
<1>2. CASE HostDies
  BY <1>2, RestartAssumption DEF HostDies, Done, RestartTypeOK, Sessions, Rows, Records, NotAsked, Sent,
     files, game
<1>3. CASE ResumeBegins
  BY <1>3 DEF ResumeBegins, RestartTypeOK, files, game, ghosts, rosterDisk, journalDisk
<1>4. CASE ResumeEnds
  BY <1>4, RestartAssumption DEF ResumeEnds, PersistRoster, WriteFails, RestartTypeOK, Rows, RowOf, game,
     ghosts, journalDisk
<1>5. ASSUME NEW r \in Bots, RowRefused(r) PROVE RestartTypeOK'
  BY <1>5 DEF RowRefused, RestartTypeOK, Rows, files, game, rosterDisk, journalDisk
<1>6. ASSUME NEW r \in Bots, RowStarted(r) PROVE RestartTypeOK'
  BY <1>6, RestartAssumption DEF RowStarted, Selecting, PersistRoster, WriteFails, RestartTypeOK, Rows,
     Claims, Records, RowOf, Sent, game, ghosts, rosterDisk, journalDisk
<1>7. ASSUME NEW r \in Bots, NEW h \in 1..MaxSessions, ReleaseOrphan(r, h) PROVE RestartTypeOK'
  BY <1>7, RestartAssumption DEF ReleaseOrphan, SaveJournal, WriteFails, RestartTypeOK, Sessions, Saved,
     ghosts, rosterDisk, journalDisk
<1>8. ASSUME NEW r \in Bots, GameSelects(r) PROVE RestartTypeOK'
  BY <1>8, RestartAssumption DEF GameSelects, Begins, RestartTypeOK, Sent, inMemory, files, ghosts,
     rosterDisk, journalDisk
<1>9. ASSUME NEW r \in Bots, SelectAnswers(r) PROVE RestartTypeOK'
  BY <1>9, RestartAssumption DEF SelectAnswers, SaveJournal, WriteFails, Done, RestartTypeOK, Sessions,
     Claims, Records, Saved, NotAsked, Sent, game, ghosts, rosterDisk
<1>10. ASSUME NEW r \in Bots, Launched(r) PROVE RestartTypeOK'
  BY <1>10, RestartAssumption DEF Launched, PersistRoster, WriteFails, RestartTypeOK, Rows, Claims, Records,
     RowOf, game, journalDisk
<1>11. ASSUME NEW r \in Bots, StartFails(r) PROVE RestartTypeOK'
  BY <1>11, RestartAssumption DEF StartFails, Stopping, PersistRoster, WriteFails, RestartTypeOK, Rows,
     Claims, Records, RowOf, NotAsked, Sent, game, ghosts, journalDisk
<1>12. ASSUME NEW r \in Bots, GameReleases(r) PROVE RestartTypeOK'
  BY <1>12, RestartAssumption DEF GameReleases, RestartTypeOK, inMemory, files, ghosts, rosterDisk,
     journalDisk
<1>13. ASSUME NEW r \in Bots, LogoutAnswers(r) PROVE RestartTypeOK'
  BY <1>13, RestartAssumption DEF LogoutAnswers, SaveJournal, WriteFails, RestartTypeOK, Sessions, Saved,
     game, ghosts, rosterDisk
<1>14. ASSUME NEW r \in Bots, Finalized(r) PROVE RestartTypeOK'
  BY <1>14, RestartAssumption DEF Finalized, Told, PersistRoster, WriteFails, RestartTypeOK, Rows, Records,
     RowOf, game, journalDisk
<1>15. ASSUME NEW r \in Bots, StopBlocked(r) PROVE RestartTypeOK'
  BY <1>15, RestartAssumption DEF StopBlocked, Told, PersistRoster, WriteFails, RestartTypeOK, Rows, Claims,
     Records, RowOf, game, journalDisk
<1>16. ASSUME NEW r \in Bots, PlayerStarts(r) PROVE RestartTypeOK'
  BY <1>16, RestartAssumption DEF PlayerStarts, Selecting, PersistRoster, WriteFails, RestartTypeOK, Rows,
     Claims, Records, RowOf, Sent, game, rosterDisk, journalDisk
<1>17. ASSUME NEW r \in Bots, StopOrEnd(r) PROVE RestartTypeOK'
  BY <1>17, RestartAssumption DEF StopOrEnd, Stopping, PersistRoster, WriteFails, RestartTypeOK, Rows,
     Claims, Records, RowOf, game, journalDisk
<1>18. ASSUME NEW r \in Bots, LateSelect(r) PROVE RestartTypeOK'
  BY <1>18, RestartAssumption DEF LateSelect, Begins, RestartTypeOK, Sessions, inMemory, files, rosterDisk,
     journalDisk
<1>19. ASSUME NEW r \in Bots, Reaped(r) PROVE RestartTypeOK'
  BY <1>19, RestartAssumption DEF Reaped, RestartTypeOK, inMemory, files, ghosts, rosterDisk, journalDisk
<1> QED
  BY <1>1, <1>2, <1>3, <1>4, <1>5, <1>6, <1>7, <1>8, <1>9, <1>10, <1>11, <1>12, <1>13, <1>14, <1>15,
     <1>16, <1>17, <1>18, <1>19 DEF RestartNext, Resume, Orphans, Run, Player, rosterDisk, journalDisk

\* The journal is written in the step that changes what it holds.
LEMMA FilesStep ==
  ASSUME RestartTypeOK, FilesKept, RestartNext
  PROVE  FilesKept'
<1>1. CASE Boots
  BY <1>1 DEF Boots, FilesKept, Saved, files, journalDisk
<1>2. CASE HostDies
  BY <1>2 DEF HostDies, FilesKept
<1>3. CASE ResumeBegins
  BY <1>3 DEF ResumeBegins, FilesKept, files, journalDisk
<1>4. CASE ResumeEnds
  BY <1>4 DEF ResumeEnds, FilesKept, journalDisk
<1>5. ASSUME NEW r \in Bots, RowRefused(r) PROVE FilesKept'
  BY <1>5 DEF RowRefused, FilesKept, files, journalDisk
<1>6. ASSUME NEW r \in Bots, RowStarted(r) PROVE FilesKept'
  BY <1>6 DEF RowStarted, FilesKept, journalDisk
<1>7. ASSUME NEW r \in Bots, NEW h \in 1..MaxSessions, ReleaseOrphan(r, h) PROVE FilesKept'
  BY <1>7 DEF ReleaseOrphan, SaveJournal, FilesKept, journalDisk
<1>8. ASSUME NEW r \in Bots, GameSelects(r) PROVE FilesKept'
  BY <1>8, RestartAssumption DEF GameSelects, FilesKept, NotAsked, Sent, inMemory, files, journalDisk
<1>9. ASSUME NEW r \in Bots, SelectAnswers(r) PROVE FilesKept'
  <2>1. host # "down" /\ host' = host
    BY <1>9, RestartAssumption DEF SelectAnswers, Done, FilesKept, NotAsked
  <2>2. Saved(pending', held') \ unsaved' \subseteq sessionFile'
    BY <1>9 DEF SelectAnswers, SaveJournal
  <2> QED BY <2>1, <2>2 DEF FilesKept
<1>10. ASSUME NEW r \in Bots, Launched(r) PROVE FilesKept'
  BY <1>10 DEF Launched, FilesKept, journalDisk
<1>11. ASSUME NEW r \in Bots, StartFails(r) PROVE FilesKept'
  BY <1>11 DEF StartFails, FilesKept, journalDisk
<1>12. ASSUME NEW r \in Bots, GameReleases(r) PROVE FilesKept'
  BY <1>12 DEF GameReleases, FilesKept, inMemory, files, journalDisk
<1>13. ASSUME NEW r \in Bots, LogoutAnswers(r) PROVE FilesKept'
  BY <1>13 DEF LogoutAnswers, SaveJournal, FilesKept
<1>14. ASSUME NEW r \in Bots, Finalized(r) PROVE FilesKept'
  BY <1>14 DEF Finalized, FilesKept, journalDisk
<1>15. ASSUME NEW r \in Bots, StopBlocked(r) PROVE FilesKept'
  BY <1>15 DEF StopBlocked, FilesKept, journalDisk
<1>16. ASSUME NEW r \in Bots, PlayerStarts(r) PROVE FilesKept'
  BY <1>16 DEF PlayerStarts, FilesKept, journalDisk
<1>17. ASSUME NEW r \in Bots, StopOrEnd(r) PROVE FilesKept'
  BY <1>17 DEF StopOrEnd, FilesKept, journalDisk
<1>18. ASSUME NEW r \in Bots, LateSelect(r) PROVE FilesKept'
  BY <1>18 DEF LateSelect, FilesKept, inMemory, files, journalDisk
<1>19. ASSUME NEW r \in Bots, Reaped(r) PROVE FilesKept'
  BY <1>19 DEF Reaped, FilesKept, inMemory, files, journalDisk
<1> QED
  BY <1>1, <1>2, <1>3, <1>4, <1>5, <1>6, <1>7, <1>8, <1>9, <1>10, <1>11, <1>12, <1>13, <1>14, <1>15,
     <1>16, <1>17, <1>18, <1>19 DEF RestartNext, Resume, Orphans, Run, Player, rosterDisk, journalDisk

\* Only a run that selects is asked for.
LEMMA AskedStep ==
  ASSUME RestartTypeOK, FilesKept, AskedBySelecting, RestartNext
  PROVE  AskedBySelecting'
<1>1. CASE Boots
  BY <1>1 DEF Boots, AskedBySelecting, Done, game, ghosts
<1>2. CASE HostDies
  BY <1>2 DEF HostDies, Done, AskedBySelecting, NotAsked
<1>3. CASE ResumeBegins
  BY <1>3 DEF ResumeBegins, AskedBySelecting, Done, game, ghosts
<1>4. CASE ResumeEnds
  BY <1>4 DEF ResumeEnds, AskedBySelecting, Done, game, ghosts
<1>5. ASSUME NEW r \in Bots, RowRefused(r) PROVE AskedBySelecting'
  BY <1>5 DEF RowRefused, AskedBySelecting, Done, game
<1>6. ASSUME NEW r \in Bots, RowStarted(r) PROVE AskedBySelecting'
  BY <1>6, RestartAssumption DEF RowStarted, Selecting, AskedBySelecting, RestartTypeOK, Sent, Done, game,
     ghosts
<1>7. ASSUME NEW r \in Bots, NEW h \in 1..MaxSessions, ReleaseOrphan(r, h) PROVE AskedBySelecting'
  BY <1>7 DEF ReleaseOrphan, AskedBySelecting, RestartTypeOK, Done, ghosts
<1>8. ASSUME NEW r \in Bots, GameSelects(r) PROVE AskedBySelecting'
  <2>1. rec[r] = "selecting"
    <3>1. ask[r] # NotAsked BY <1>8, RestartAssumption DEF GameSelects, NotAsked, Sent
    <3> QED BY <3>1 DEF AskedBySelecting
  <2>2. online' = [online EXCEPT ![r] = last'[r]] /\ ask' = [ask EXCEPT ![r] = last'[r]]
    BY <1>8 DEF GameSelects, Begins
  <2>3. UNCHANGED <<rec, astray>> BY <1>8 DEF GameSelects, inMemory, ghosts
  <2>4. online'[r] = ask'[r] BY <2>2 DEF RestartTypeOK
  <2>5. \A x \in Bots \ {r} : online'[x] = online[x] /\ ask'[x] = ask[x] BY <2>2
  <2> QED BY <2>1, <2>3, <2>4, <2>5 DEF AskedBySelecting, Done
<1>9. ASSUME NEW r \in Bots, SelectAnswers(r) PROVE AskedBySelecting'
  BY <1>9 DEF SelectAnswers, Done, AskedBySelecting, RestartTypeOK, NotAsked, game, ghosts
<1>10. ASSUME NEW r \in Bots, Launched(r) PROVE AskedBySelecting'
  BY <1>10 DEF Launched, AskedBySelecting, Done, game
<1>11. ASSUME NEW r \in Bots, StartFails(r) PROVE AskedBySelecting'
  BY <1>11 DEF StartFails, Stopping, AskedBySelecting, RestartTypeOK, NotAsked, Done, game, ghosts
<1>12. ASSUME NEW r \in Bots, GameReleases(r) PROVE AskedBySelecting'
  BY <1>12 DEF GameReleases, AskedBySelecting, RestartTypeOK, Done, inMemory, ghosts
<1>13. ASSUME NEW r \in Bots, LogoutAnswers(r) PROVE AskedBySelecting'
  BY <1>13 DEF LogoutAnswers, AskedBySelecting, Done, game, ghosts
<1>14. ASSUME NEW r \in Bots, Finalized(r) PROVE AskedBySelecting'
  BY <1>14 DEF Finalized, AskedBySelecting, Done, game
<1>15. ASSUME NEW r \in Bots, StopBlocked(r) PROVE AskedBySelecting'
  BY <1>15 DEF StopBlocked, AskedBySelecting, Done, game
<1>16. ASSUME NEW r \in Bots, PlayerStarts(r) PROVE AskedBySelecting'
  BY <1>16 DEF PlayerStarts, Selecting, AskedBySelecting, RestartTypeOK, Done, game
<1>17. ASSUME NEW r \in Bots, StopOrEnd(r) PROVE AskedBySelecting'
  BY <1>17 DEF StopOrEnd, Stopping, AskedBySelecting, Done, game
<1>18. ASSUME NEW r \in Bots, LateSelect(r) PROVE AskedBySelecting'
  BY <1>18 DEF LateSelect, Begins, Done, AskedBySelecting, RestartTypeOK, inMemory
<1>19. ASSUME NEW r \in Bots, Reaped(r) PROVE AskedBySelecting'
  BY <1>19 DEF Reaped, Done, AskedBySelecting, RestartTypeOK, inMemory, ghosts
<1> QED
  BY <1>1, <1>2, <1>3, <1>4, <1>5, <1>6, <1>7, <1>8, <1>9, <1>10, <1>11, <1>12, <1>13, <1>14, <1>15,
     <1>16, <1>17, <1>18, <1>19 DEF RestartNext, Resume, Orphans, Run, Player, rosterDisk, journalDisk

\* A session is remembered from the step that tells the process of it.
LEMMA RememberedStep ==
  ASSUME RestartTypeOK, FilesKept, AskedBySelecting, JournalCovers, Remembered, RestartNext
  PROVE  Remembered'
<1>1. CASE Boots
  BY <1>1 DEF Boots, Remembered, JournalCovers, FilesKept, Done, game, ghosts, Saved
<1>2. CASE HostDies
  BY <1>2 DEF HostDies, AskedBySelecting, Remembered, game, Saved
<1>3. CASE ResumeBegins
  BY <1>3 DEF ResumeBegins, Remembered, Done, game, ghosts, Saved
<1>4. CASE ResumeEnds
  BY <1>4 DEF ResumeEnds, Remembered, Done, game, ghosts, Saved
<1>5. ASSUME NEW r \in Bots, RowRefused(r) PROVE Remembered'
  BY <1>5 DEF RowRefused, Remembered, Done, game, Saved
<1>6. ASSUME NEW r \in Bots, RowStarted(r) PROVE Remembered'
  BY <1>6 DEF RowStarted, MayResume, Selecting, AskedBySelecting, Remembered, Claims, NotAsked, Done, game,
     ghosts, Saved
<1>7. ASSUME NEW r \in Bots, NEW h \in 1..MaxSessions, ReleaseOrphan(r, h) PROVE Remembered'
  BY <1>7 DEF ReleaseOrphan, FilesKept, Remembered, RestartTypeOK, Saved, Done, ghosts
<1>8. ASSUME NEW r \in Bots, GameSelects(r) PROVE Remembered'
  BY <1>8, RestartAssumption DEF GameSelects, Begins, Done, Remembered, RestartTypeOK, ghosts, Saved,
     inMemory
<1>9. ASSUME NEW r \in Bots, SelectAnswers(r) PROVE Remembered'
  BY <1>9 DEF SelectAnswers, Done, FilesKept, AskedBySelecting, Remembered, RestartTypeOK, Saved, game,
     ghosts
<1>10. ASSUME NEW r \in Bots, Launched(r) PROVE Remembered'
  BY <1>10 DEF Launched, Remembered, Done, game, Saved
<1>11. ASSUME NEW r \in Bots, StartFails(r) PROVE Remembered'
  BY <1>11, RestartAssumption DEF StartFails, AskedBySelecting, Remembered, Sent, Done, game, ghosts, Saved
<1>12. ASSUME NEW r \in Bots, GameReleases(r) PROVE Remembered'
  BY <1>12 DEF GameReleases, Remembered, Done, ghosts, Saved, inMemory
<1>13. ASSUME NEW r \in Bots, LogoutAnswers(r) PROVE Remembered'
  BY <1>13 DEF LogoutAnswers, FilesKept, Remembered, Saved, Done, game, ghosts
<1>14. ASSUME NEW r \in Bots, Finalized(r) PROVE Remembered'
  BY <1>14 DEF Finalized, Remembered, Done, game, Saved
<1>15. ASSUME NEW r \in Bots, StopBlocked(r) PROVE Remembered'
  BY <1>15 DEF StopBlocked, Remembered, Done, game, Saved
<1>16. ASSUME NEW r \in Bots, PlayerStarts(r) PROVE Remembered'
  BY <1>16 DEF PlayerStarts, Selecting, Remembered, Done, game, Saved
<1>17. ASSUME NEW r \in Bots, StopOrEnd(r) PROVE Remembered'
  BY <1>17 DEF StopOrEnd, Remembered, Done, game, Saved
<1>18. ASSUME NEW r \in Bots, LateSelect(r) PROVE Remembered'
  BY <1>18 DEF LateSelect, Begins, Done, Remembered, Saved, inMemory
<1>19. ASSUME NEW r \in Bots, Reaped(r) PROVE Remembered'
  BY <1>19 DEF Reaped, Done, Remembered, ghosts, Saved, inMemory
<1> QED
  BY <1>1, <1>2, <1>3, <1>4, <1>5, <1>6, <1>7, <1>8, <1>9, <1>10, <1>11, <1>12, <1>13, <1>14, <1>15,
     <1>16, <1>17, <1>18, <1>19 DEF RestartNext, Resume, Orphans, Run, Player, rosterDisk, journalDisk

\* What is remembered and is not left out by a save that failed is in the journal, and a
\* process that dies leaves the journal as it is.
LEMMA CoversStep ==
  ASSUME RestartTypeOK, FilesKept, AskedBySelecting, JournalCovers, RestartNext, FilesKept', Remembered'
  PROVE  JournalCovers'
<1>1. CASE host' # "down"
  BY <1>1 DEF FilesKept, Remembered, JournalCovers
<1>2. CASE HostDies
  BY <1>2 DEF HostDies, AskedBySelecting, JournalCovers, game
<1>3. ASSUME NEW r \in Bots, LateSelect(r) PROVE JournalCovers'
  BY <1>3 DEF LateSelect, Begins, Done, JournalCovers, files, journalDisk
<1>4. ASSUME NEW r \in Bots, Reaped(r) PROVE JournalCovers'
  BY <1>4 DEF Reaped, Done, JournalCovers, files, journalDisk, ghosts
<1>5. Boots \/ Resume \/ Orphans => host' # "down"
  BY DEF Boots, Resume, ResumeBegins, ResumeEnds, RowRefused, RowStarted, Orphans, ReleaseOrphan
<1>6. ASSUME NEW r \in Bots, Run(r) \/ Player(r) PROVE host' # "down"
  <2>1. rec[r] # "none" \/ ask[r] # NotAsked \/ host # "down"
    BY <1>6, RestartAssumption DEF Run, Player, GameSelects, SelectAnswers, Launched, StartFails,
       GameReleases, LogoutAnswers, Finalized, StopBlocked, PlayerStarts, StopOrEnd, Done, NotAsked, Sent,
       journalDisk
  <2>2. host # "down" BY <2>1 DEF FilesKept
  <2>3. host' = host
    BY <1>6 DEF Run, Player, GameSelects, SelectAnswers, Launched, StartFails, GameReleases, LogoutAnswers,
       Finalized, StopBlocked, PlayerStarts, StopOrEnd, journalDisk
  <2> QED BY <2>2, <2>3
<1> QED BY <1>1, <1>2, <1>3, <1>4, <1>5, <1>6 DEF RestartNext

\* The roster is written in the step that begins or ends a run.
LEMMA RestartRosterStep ==
  ASSUME RestartTypeOK, FilesKept, AskedBySelecting, RosterTrue, RestartNext
  PROVE  RosterTrue'
<1>1. CASE Boots
  BY <1>1 DEF Boots, RosterTrue, files, rosterDisk
<1>2. CASE HostDies
  BY <1>2 DEF HostDies, RosterTrue
<1>3. CASE ResumeBegins
  BY <1>3 DEF ResumeBegins, RosterTrue, files, rosterDisk
<1>4. CASE ResumeEnds
  BY <1>4 DEF ResumeEnds, PersistRoster, RosterTrue
<1>5. ASSUME NEW r \in Bots, RowRefused(r) PROVE RosterTrue'
  BY <1>5 DEF RowRefused, RosterTrue, files, rosterDisk
<1>6. ASSUME NEW r \in Bots, RowStarted(r) PROVE RosterTrue'
  BY <1>6 DEF RowStarted, Selecting, PersistRoster, RosterTrue, rosterDisk
<1>7. ASSUME NEW r \in Bots, NEW h \in 1..MaxSessions, ReleaseOrphan(r, h) PROVE RosterTrue'
  BY <1>7 DEF ReleaseOrphan, RosterTrue, rosterDisk
<1>8. ASSUME NEW r \in Bots, GameSelects(r) PROVE RosterTrue'
  BY <1>8 DEF GameSelects, RosterTrue, inMemory, files, rosterDisk
<1>9. ASSUME NEW r \in Bots, SelectAnswers(r) PROVE RosterTrue'
  BY <1>9 DEF SelectAnswers, RosterTrue, rosterDisk
<1>10. ASSUME NEW r \in Bots, Launched(r) PROVE RosterTrue'
  BY <1>10 DEF Launched, PersistRoster, RosterTrue
<1>11. ASSUME NEW r \in Bots, StartFails(r) PROVE RosterTrue'
  BY <1>11 DEF StartFails, Stopping, PersistRoster, RosterTrue
<1>12. ASSUME NEW r \in Bots, GameReleases(r) PROVE RosterTrue'
  BY <1>12 DEF GameReleases, RosterTrue, inMemory, files, rosterDisk
<1>13. ASSUME NEW r \in Bots, LogoutAnswers(r) PROVE RosterTrue'
  BY <1>13 DEF LogoutAnswers, RosterTrue, rosterDisk
<1>14. ASSUME NEW r \in Bots, Finalized(r) PROVE RosterTrue'
  BY <1>14 DEF Finalized, PersistRoster, RosterTrue
<1>15. ASSUME NEW r \in Bots, StopBlocked(r) PROVE RosterTrue'
  BY <1>15 DEF StopBlocked, PersistRoster, RosterTrue
<1>16. ASSUME NEW r \in Bots, PlayerStarts(r) PROVE RosterTrue'
  BY <1>16 DEF PlayerStarts, Selecting, PersistRoster, RosterTrue, rosterDisk
<1>17. ASSUME NEW r \in Bots, StopOrEnd(r) PROVE RosterTrue'
  BY <1>17 DEF StopOrEnd, Stopping, PersistRoster, RosterTrue
<1>18. ASSUME NEW r \in Bots, LateSelect(r) PROVE RosterTrue'
  BY <1>18 DEF LateSelect, RosterTrue, inMemory, files, rosterDisk
<1>19. ASSUME NEW r \in Bots, Reaped(r) PROVE RosterTrue'
  BY <1>19 DEF Reaped, RosterTrue, inMemory, files, rosterDisk
<1> QED
  BY <1>1, <1>2, <1>3, <1>4, <1>5, <1>6, <1>7, <1>8, <1>9, <1>10, <1>11, <1>12, <1>13, <1>14, <1>15,
     <1>16, <1>17, <1>18, <1>19 DEF RestartNext, Resume, Orphans, Run, Player, rosterDisk, journalDisk

\* A run stopped is not claimed again, on disk or in memory.
LEMMA StoppedStep ==
  ASSUME RestartTypeOK, FilesKept, AskedBySelecting, RosterTrue, StoppedStay, RestartNext
  PROVE  StoppedStay'
<1>1. CASE Boots
  BY <1>1 DEF Boots, StoppedStay, files, ghosts, rosterDisk
<1>2. CASE HostDies
  BY <1>2 DEF HostDies, RosterTrue, StoppedStay, RestartTypeOK, Records, Claims, RowOf
<1>3. CASE ResumeBegins
  BY <1>3 DEF ResumeBegins, StoppedStay, files, ghosts, rosterDisk
<1>4. CASE ResumeEnds
  BY <1>4 DEF ResumeEnds, PersistRoster, StoppedStay, RestartTypeOK, RowOf, ghosts
<1>5. ASSUME NEW r \in Bots, RowRefused(r) PROVE StoppedStay'
  BY <1>5 DEF RowRefused, StoppedStay, files, rosterDisk
<1>6. ASSUME NEW r \in Bots, RowStarted(r) PROVE StoppedStay'
  BY <1>6 DEF RowStarted, MayResume, Selecting, PersistRoster, StoppedStay, RestartTypeOK, RowOf, ghosts,
     rosterDisk
<1>7. ASSUME NEW r \in Bots, NEW h \in 1..MaxSessions, ReleaseOrphan(r, h) PROVE StoppedStay'
  BY <1>7 DEF ReleaseOrphan, StoppedStay, ghosts, rosterDisk
<1>8. ASSUME NEW r \in Bots, GameSelects(r) PROVE StoppedStay'
  BY <1>8 DEF GameSelects, StoppedStay, inMemory, files, ghosts, rosterDisk
<1>9. ASSUME NEW r \in Bots, SelectAnswers(r) PROVE StoppedStay'
  <2>1. rec[r] = "selecting" BY <1>9, DoneSelects DEF SelectAnswers
  <2>2. r \notin stopped BY <2>1 DEF StoppedStay
  <2> QED BY <1>9, <2>2 DEF SelectAnswers, StoppedStay, ghosts, rosterDisk
<1>10. ASSUME NEW r \in Bots, Launched(r) PROVE StoppedStay'
  BY <1>10 DEF Launched, PersistRoster, StoppedStay, RestartTypeOK, RowOf
<1>11. ASSUME NEW r \in Bots, StartFails(r) PROVE StoppedStay'
  BY <1>11 DEF StartFails, Stopping, PersistRoster, StoppedStay, RestartTypeOK, RowOf, ghosts
<1>12. ASSUME NEW r \in Bots, GameReleases(r) PROVE StoppedStay'
  BY <1>12 DEF GameReleases, StoppedStay, inMemory, files, ghosts, rosterDisk
<1>13. ASSUME NEW r \in Bots, LogoutAnswers(r) PROVE StoppedStay'
  BY <1>13 DEF LogoutAnswers, StoppedStay, ghosts, rosterDisk
<1>14. ASSUME NEW r \in Bots, Finalized(r) PROVE StoppedStay'
  BY <1>14 DEF Finalized, PersistRoster, StoppedStay, RestartTypeOK, RowOf
<1>15. ASSUME NEW r \in Bots, StopBlocked(r) PROVE StoppedStay'
  BY <1>15 DEF StopBlocked, PersistRoster, StoppedStay, RestartTypeOK, RowOf
<1>16. ASSUME NEW r \in Bots, PlayerStarts(r) PROVE StoppedStay'
  BY <1>16 DEF PlayerStarts, Selecting, PersistRoster, StoppedStay, RestartTypeOK, RowOf, rosterDisk
<1>17. ASSUME NEW r \in Bots, StopOrEnd(r) PROVE StoppedStay'
  BY <1>17 DEF StopOrEnd, Stopping, PersistRoster, StoppedStay, RestartTypeOK, RowOf
<1>18. ASSUME NEW r \in Bots, LateSelect(r) PROVE StoppedStay'
  BY <1>18 DEF LateSelect, StoppedStay, inMemory, files, rosterDisk
<1>19. ASSUME NEW r \in Bots, Reaped(r) PROVE StoppedStay'
  BY <1>19 DEF Reaped, StoppedStay, inMemory, files, ghosts, rosterDisk
<1> QED
  BY <1>1, <1>2, <1>3, <1>4, <1>5, <1>6, <1>7, <1>8, <1>9, <1>10, <1>11, <1>12, <1>13, <1>14, <1>15,
     <1>16, <1>17, <1>18, <1>19 DEF RestartNext, Resume, Orphans, Run, Player, rosterDisk, journalDisk


\* What is kept from state to state: with it each of the properties is inductive.
RestartKept ==
  /\ RestartTypeOK /\ FilesKept /\ AskedBySelecting /\ Remembered
  /\ JournalCovers /\ RosterTrue /\ StoppedStay

\* Before the first process.
LEMMA RestartInitially == RestartInit => RestartKept
BY RestartAssumption DEF RestartInit, RestartKept, RestartTypeOK, FilesKept, AskedBySelecting,
   Remembered, JournalCovers, RosterTrue,
   StoppedStay, Rows, Records, NotAsked, Sent

\* Every step keeps the invariant.
LEMMA RestartStep == RestartKept /\ [RestartNext]_restartVars => RestartKept'
<1> SUFFICES ASSUME RestartKept, [RestartNext]_restartVars PROVE RestartKept' OBVIOUS
<1>1. CASE RestartNext
  BY <1>1, RestartTypeStep, FilesStep, AskedStep, RememberedStep, CoversStep, RestartRosterStep, StoppedStep
     DEF RestartKept
<1>2. CASE UNCHANGED restartVars
  BY <1>2 DEF RestartKept, RestartTypeOK, FilesKept, AskedBySelecting, Remembered, JournalCovers,
     RosterTrue, StoppedStay, Done, restartVars, inMemory, files, rosterDisk, journalDisk, game, ghosts
<1> QED BY <1>1, <1>2

\* It holds in every state.
LEMMA RestartAlways == RestartSpec => []RestartKept
BY RestartInitially, RestartStep, PTL DEF RestartSpec

\* Whenever the process dies, a session of the game server that a process was told of is
\* in the journal, for any runs, sessions, crashes and saves that fail, unless the save that
\* left it out failed and none has succeeded since (bridgeSessionJournal.js, save).
THEOREM CanBeLetGo == RestartSpec => []JournalCovers
<1>1. RestartKept => JournalCovers BY DEF RestartKept
<1> QED BY <1>1, RestartAlways, PTL

\* The roster has the row of every run begun and not ended and of none that is over, but for
\* a run whose own last write failed, with none since; for any number of writes that fail
\* (persistRoster).
THEOREM RosterTellsTheTruth == RestartSpec => []RosterTrue
<1>1. RestartKept => RosterTrue BY DEF RestartKept
<1> QED BY <1>1, RestartAlways, PTL

\* However often the process dies and a write fails, resume() starts no run that was stopped,
\* or over, in a process that is gone, where the roster was written of it.
THEOREM StoppedStayStopped == RestartSpec => StopNotReplayed
<1>1. RestartKept /\ [RestartNext]_restartVars => [busy' # busy => busy' \notin stopped]_restartVars
  <2> SUFFICES ASSUME RestartKept, RestartNext, busy' # busy PROVE busy' \notin stopped BY DEF inMemory
  <2>1. NoBot \notin stopped BY RestartAssumption DEF RestartKept, RestartTypeOK
  <2>2. ASSUME NEW r \in Bots, RowStarted(r) PROVE busy' \notin stopped
    BY <2>2 DEF RowStarted, MayResume, RestartKept, StoppedStay
  <2>3. busy' = NoBot \/ \E r \in Bots : RowStarted(r)
    BY DEF RestartNext, Resume, Orphans, Run, Player, Boots, HostDies, ResumeBegins, ResumeEnds, RowRefused,
       ReleaseOrphan, GameSelects, SelectAnswers, Launched, StartFails, GameReleases, LogoutAnswers,
       Finalized, StopBlocked, Told, PlayerStarts, StopOrEnd, LateSelect, Reaped, inMemory
  <2> QED BY <2>1, <2>2, <2>3
<1> QED BY <1>1, RestartAlways, PTL DEF RestartSpec, StopNotReplayed

\* No start, of a player or of resume(), touches a pilot whose run is not over (claims).
THEOREM OneRunOfAPilot == RestartSpec => FliesOn
<1> DEFINE FliesOnNow == \A r \in Bots : rec[r] \in {"flying", "stopping", "blocked"} /\ host' # "down"
                                          => rec'[r] \notin {"selecting", "launching", "none"}
<1>1. RestartKept /\ [RestartNext]_restartVars => [FliesOnNow]_restartVars
  <2> SUFFICES ASSUME RestartKept, RestartNext, NEW x \in Bots, rec[x] \in {"flying", "stopping",
  "blocked"},
                      host' # "down"
               PROVE  rec'[x] \notin {"selecting", "launching", "none"}
    BY DEF restartVars
  <2>1. rec \in [Bots -> Records] /\ rec' \in [Bots -> Records] BY RestartStep DEF RestartKept,
                                                                   RestartTypeOK
  <2>2. ASSUME NEW r \in Bots, PlayerStarts(r) \/ RowStarted(r) \/ SelectAnswers(r)
        PROVE  r # x /\ rec'[x] = rec[x]
    <3>1. CASE PlayerStarts(r) BY <2>1, <3>1 DEF PlayerStarts, Selecting, Claims
    <3>2. CASE RowStarted(r) BY <2>1, <3>2 DEF RowStarted, MayResume, Selecting, Claims
    <3>3. CASE SelectAnswers(r)
      <4>1. rec[r] = "selecting" BY <3>3, DoneSelects DEF SelectAnswers, RestartKept
      <4> QED BY <2>1, <3>3, <4>1 DEF SelectAnswers
    <3> QED BY <2>2, <3>1, <3>2, <3>3
  <2>3. \/ \E r \in Bots : PlayerStarts(r) \/ RowStarted(r) \/ SelectAnswers(r)
        \/ \E r \in Bots, st \in {"flying", "stopping", "ended", "blocked"} :
             rec' = [rec EXCEPT ![r] = st]
        \/ rec' = rec
    <3>1. ASSUME NEW r \in Bots, Launched(r) \/ StartFails(r) \/ Finalized(r) \/ StopBlocked(r)
                                  \/ StopOrEnd(r)
          PROVE  \E st \in {"flying", "stopping", "ended", "blocked"} : rec' = [rec EXCEPT ![r] = st]
      BY <3>1 DEF Launched, StartFails, Finalized, StopBlocked, StopOrEnd, Stopping
    <3>2. ~HostDies BY DEF HostDies
    <3>3. ASSUME NEW r \in Bots, GameSelects(r) \/ GameReleases(r) \/ LogoutAnswers(r)
                                  \/ RowRefused(r) \/ LateSelect(r) \/ Reaped(r)
          PROVE  rec' = rec
      BY <3>3 DEF GameSelects, GameReleases, LogoutAnswers, RowRefused, LateSelect, Reaped, inMemory
    <3>4. ASSUME Boots \/ ResumeBegins \/ ResumeEnds \/ Orphans PROVE rec' = rec
      BY <3>4 DEF Boots, ResumeBegins, ResumeEnds, Orphans, ReleaseOrphan
    <3> QED BY <3>1, <3>2, <3>3, <3>4 DEF RestartNext, Resume, Run, Player
  <2> QED BY <2>1, <2>2, <2>3
<1> QED BY <1>1, RestartAlways, PTL DEF RestartSpec, FliesOn

-----------------------------------------------------------------------------
(* The runs' startup steps.                                                *)

Settling == {"PENDING", "BLOCKED", "COMPLETE"}

\* Who flies is on the roster, who is on it has a row, and a run not opened has none.
Owned ==
  /\ pc = "off" <=> cur = None
  /\ cur # None => roster = cur /\ row.st # "none"
  /\ roster # None => journal[roster].st # "none"
  /\ \A r \in Runs : journal[r].st = "none" => journal[r] = NoRow

\* What stands where the tick does.
AtWork ==
  /\ pc \in {"check", "choose", "issue", "issued", "uncertain"} => at \in Prefix
  /\ pc = "check" => row.blocks[at].st = "COMPLETE"
  /\ pc = "choose" => row.blocks[at].st \in {"fresh", "NEEDED"}
  /\ pc \in {"issue", "issued", "uncertain"} =>
       row.blocks[at].st = "PENDING" /\ journal[cur].blocks[at].st = "PENDING" /\ at \notin restored

\* A step is complete, in memory or on disk, only if its goal was seen.
CompleteSeen ==
  /\ cur # None => seen.goal \subseteq proved[cur]
  /\ \A r \in Runs, s \in Prefix :
       /\ journal[r].blocks[s].st = "COMPLETE" => s \in proved[r]
       /\ cur = r /\ row.blocks[s].st = "COMPLETE" => s \in proved[r]

\* What lies before a position is complete; the one in memory is the one on disk until
\* MAIN, and the row's is one ahead where its save has failed.
InPlace ==
  /\ \A r \in Runs, s \in Prefix : s < journal[r].at => journal[r].blocks[s].st = "COMPLETE"
  /\ cur # None =>
       /\ \A s \in Prefix : s < row.at => row.blocks[s].st = "COMPLETE"
       /\ at \in Prefix => /\ journal[cur].at = at
                           /\ row.at \in {at, at + 1}
                           /\ row.blocks[at].st # "COMPLETE" => row.at = at
       /\ at = Main => row.at = Main

\* What lies ahead of a position is untouched.
Untouched ==
  \A r \in Runs, s \in Prefix :
    /\ s > journal[r].at => journal[r].blocks[s] = Fresh
    /\ cur = r /\ s > at => row.blocks[s] = Fresh

\* How many orders a step's block accounts for.
Spent(b) == IF b.st \in Settling THEN b.landed + 1 ELSE b.landed

BlockOK(b, s) == /\ b.landed < MaxLanded
                 /\ b.landed > 0 \/ b.order = "board" => s \in Refits

Counted ==
  /\ \A r \in Runs, s \in Prefix :
       /\ given[r][s] <= Spent(journal[r].blocks[s]) /\ BlockOK(journal[r].blocks[s], s)
       /\ cur = r => given[r][s] <= Spent(row.blocks[s]) /\ BlockOK(row.blocks[s], s)
  /\ pc = "issue" => /\ given[cur][at] <= row.blocks[at].landed
                     /\ given[cur][at] <= journal[cur].blocks[at].landed

\* An order that may still be carried out is known on disk and in memory; one that this
\* process gave, and that is not complete, is the one the tick waits for or has given up.
OrdersKnown ==
  /\ \A r \in Runs, s \in Prefix : out[r][s] > 0 =>
       /\ journal[r].blocks[s].st \in Settling /\ s <= journal[r].at
       /\ cur = r => /\ row.blocks[s].st \in Settling
                     /\ \/ s \in restored
                        \/ journal[r].blocks[s].st = "COMPLETE" /\ row.blocks[s].st = "COMPLETE"
                        \/ pc \in {"issued", "uncertain"} /\ s = at
  /\ pc = "issued" => out[cur][at] = 1
  /\ \A s \in restored : row.blocks[s].st \in Settling

\* When the run of a pilot's own was opened nothing before it was unresolved.
RosterClean ==
  \A r \in Runs : roster = r /\ r \notin Prepared => \A q \in Runs \ {r} : Unproven(journal[q]) = {}

Kept == /\ TypeOK /\ Owned /\ AtWork /\ CompleteSeen /\ InPlace /\ Untouched /\ Counted /\ OrdersKnown /\ RosterClean

-----------------------------------------------------------------------------
(* Rows and counts, and what writing to them changes.                      *)

Block == [st : {"fresh", "NEEDED", "PENDING", "COMPLETE", "BLOCKED"},
          order : Orders \cup {"none"}, landed : 0..MaxLanded]
RunRows == [Runs -> RowSet]
Counts == [Runs -> [Prefix -> Nat]]

\* A row is made of blocks, a position and a state.
LEMMA RowTypes ==
  ASSUME NEW r \in RowSet
  PROVE  r.blocks \in [Prefix -> Block] /\ r.at \in 1..Main /\ r.st \in {"none", "open", "ended"}
BY DEF RowSet, Blocks, Block

\* A block written, a position moved, a state set: the rest of the row stays.
LEMMA BlockWritten ==
  ASSUME NEW r \in RowSet, NEW s \in Prefix, NEW b \in Block
  PROVE  LET new == [r EXCEPT !.blocks[s] = b] IN
         /\ new \in RowSet /\ new.st = r.st /\ new.at = r.at /\ new.blocks[s] = b
         /\ \A t \in Prefix \ {s} : new.blocks[t] = r.blocks[t]
BY DEF RowSet, Blocks, Block

LEMMA AtWritten ==
  ASSUME NEW r \in RowSet, NEW n \in 1..Main
  PROVE  LET new == [r EXCEPT !.at = n] IN
         new \in RowSet /\ new.st = r.st /\ new.at = n /\ new.blocks = r.blocks
BY DEF RowSet

LEMMA StWritten ==
  ASSUME NEW r \in RowSet, NEW st \in {"open", "ended"}
  PROVE  LET new == [r EXCEPT !.st = st] IN
         new \in RowSet /\ new.at = r.at /\ new.st = st /\ new.blocks = r.blocks
BY DEF RowSet

\* The row of a run not opened.
LEMMA NoRowIs ==
  /\ NoRow \in RowSet /\ NoRow.at = 1 /\ NoRow.st = "none" /\ Fresh \in Block
  /\ \A s \in Prefix : NoRow.blocks[s] = Fresh
<1>1. Fresh \in Block BY StartupAssumption DEF Fresh, Block
<1>2. 1 \in 1..Main BY StartupAssumption DEF Main
<1> QED BY <1>1, <1>2 DEF NoRow, RowSet, Blocks, Block

\* As much of the types as the rest rests on.
LEMMA Typed ==
  ASSUME TypeOK
  PROVE  /\ row \in RowSet /\ journal \in RunRows /\ out \in Counts /\ given \in Counts
         /\ row.blocks \in [Prefix -> Block] /\ row.at \in 1..Main /\ at \in 1..Main
         /\ \A r \in Runs : /\ journal[r] \in RowSet /\ journal[r].blocks \in [Prefix -> Block]
                            /\ journal[r].at \in 1..Main
         /\ cur \in Runs \cup {None} /\ roster \in Runs \cup {None}
         /\ \A r \in Runs, s \in Prefix : out[r][s] \in Nat /\ given[r][s] \in Nat
         /\ MaxReads \in Nat /\ reads \in [Prefix -> 0..MaxReads]
         /\ proved \in [Runs -> SUBSET Prefix]
<1>1. /\ row \in RowSet /\ journal \in RunRows /\ out \in Counts /\ given \in Counts /\ at \in 1..Main
      /\ cur \in Runs \cup {None} /\ roster \in Runs \cup {None}
      /\ reads \in [Prefix -> 0..MaxReads] /\ proved \in [Runs -> SUBSET Prefix]
  BY DEF TypeOK, RunRows, Counts
<1>2. \A r \in Runs : journal[r] \in RowSet BY <1>1 DEF RunRows
<1>3. \A r \in Runs, s \in Prefix : out[r][s] \in Nat /\ given[r][s] \in Nat BY <1>1 DEF Counts
<1> QED BY <1>1, <1>2, <1>3, RowTypes, StartupAssumption

\* Where a position can be.
LEMMA Places ==
  /\ \A s \in Prefix : s \in Nat /\ s >= 1 /\ s < Main /\ s + 1 \in 1..Main
  /\ \A n \in 1..Main : n \in Nat /\ (n \in Prefix \/ n = Main)
  /\ 1 \in Prefix /\ 1 \in 1..Main /\ Main \in Nat /\ Main \notin Prefix
BY StartupAssumption DEF Prefix, Main

\* What a process begins with.
LEMMA EmptyTypes ==
  /\ [s \in Prefix |-> 0] \in [Prefix -> 0..MaxReads]
  /\ Nothing \in [goal : SUBSET Prefix, boarded : SUBSET Prefix]
BY StartupAssumption DEF Nothing

-----------------------------------------------------------------------------
(* What the steps that write rows do.                                      *)

\* Only the row of the run that flies is written.
Elsewhere == journal' \in RunRows /\ \A r \in Runs \ {cur} : journal'[r] = journal[r]

\* The row in memory gets a new block, and the one on disk becomes it or stays.
Written(b) ==
  /\ row' \in RowSet /\ row'.st = row.st /\ row'.at = row.at /\ row'.blocks[at] = b
  /\ \A t \in Prefix \ {at} : row'.blocks[t] = row.blocks[t]
  /\ Elsewhere
  /\ journal'[cur] \in {row', journal[cur]} /\ (pc' # "paused" => journal'[cur] = row')

\* A save that fails leaves the row changed in memory alone, and pauses.
LEMMA SavesDoes ==
  ASSUME TypeOK, cur \in Runs, NEW new \in RowSet, NEW next, Saves(new, next)
  PROVE  /\ row' = new /\ Elsewhere
         /\ \/ journal'[cur] = row' /\ pc' = next
            \/ journal'[cur] = journal[cur] /\ pc' = "paused"
BY Typed DEF Saves, Elsewhere, RunRows

\* Writing the row of the run that flies leaves the roster right.
LEMMA OwnedElsewhere ==
  ASSUME TypeOK, Owned, cur \in Runs, UNCHANGED <<cur, roster>>, pc' # "off", Elsewhere,
         row'.st # "none", journal'[cur] \in {row', journal[cur]}
  PROVE  Owned'
BY Typed, StartupAssumption DEF Owned, Elsewhere

\* What observe() may make of the block of the step at work, and what is saved of it.
Became(b) ==
  LET old == row.blocks[at] IN
  \/ b = old
  \/ /\ b.st = "COMPLETE" /\ b.order = old.order /\ b.landed = old.landed
     /\ at \in seen.goal
  \/ /\ b.st = "BLOCKED" /\ b.order = old.order /\ b.landed = old.landed
     /\ old.st \in {"PENDING", "BLOCKED"}
  \/ /\ b.st = "NEEDED" /\ b.order = "none" /\ b.landed = old.landed + 1
     /\ old.st = "PENDING" /\ old.order = "board" /\ at \notin restored /\ b.landed < MaxLanded

LEMMA ObserveDoes ==
  ASSUME TypeOK, Owned, Observe
  PROVE  /\ pc = "read" /\ at \in Prefix /\ cur \in Runs
         /\ UNCHANGED <<goal, boarded, out, roster, cur, restored, at, seen, proved, given>>
         /\ \E b \in Block :
              /\ Became(b)
              /\ \/ row' = row /\ journal' = journal /\ b = row.blocks[at]
                 \/ row.blocks[at].st # "COMPLETE" /\ Written(b)
              /\ pc' \in {"check", "paused", "idle", "choose"}
              /\ pc' = "check" => b.st = "COMPLETE"
              /\ pc' = "choose" => b.st \in {"fresh", "NEEDED"}
<1> DEFINE b == Observed(at)
<1>0. at \in Prefix /\ row.blocks[at] \in Block /\ pc = "read" /\ row \in RowSet /\ cur \in Runs
  BY Typed DEF Observe, Owned
<1>2. ASSUME row.blocks[at].st = "COMPLETE" PROVE b = row.blocks[at] /\ b.st # "BLOCKED"
  <2>1. b = row.blocks[at] BY <1>2 DEF Observed, LandedOf
  <2> HIDE DEF b
  <2> QED BY <1>2, <2>1
<1>1. \/ b = row.blocks[at]
      \/ b = [row.blocks[at] EXCEPT !.st = "COMPLETE"] /\ at \in seen.goal
      \/ b = [row.blocks[at] EXCEPT !.st = "BLOCKED"] /\ row.blocks[at].st \in {"PENDING", "BLOCKED"}
      \/ /\ b = [Fresh EXCEPT !.st = "NEEDED", !.landed = row.blocks[at].landed + 1]
         /\ row.blocks[at].st = "PENDING" /\ row.blocks[at].order = "board" /\ at \notin restored
         /\ row.blocks[at].landed + 1 < MaxLanded
  <2>1. CASE row.blocks[at].st = "COMPLETE" BY <2>1, <1>2
  <2>2. CASE row.blocks[at].st # "COMPLETE" /\ Proven(at) BY <2>2 DEF Observed, Proven
  <2>3. CASE row.blocks[at].st # "COMPLETE" /\ ~Proven(at) /\ LandedOf(at)
    <3>1. b = Landed(row.blocks[at]) BY <2>3 DEF Observed, LandedOf
    <3>2. row.blocks[at].landed \in Nat BY <1>0 DEF Block
    <3>3. row.blocks[at].landed + 1 >= MaxLanded \/ row.blocks[at].landed + 1 < MaxLanded
      BY <3>2, StartupAssumption
    <3> QED BY <2>3, <3>1, <3>3 DEF Landed, LandedOf
  <2>4. CASE row.blocks[at].st # "COMPLETE" /\ ~Proven(at) /\ ~LandedOf(at)
    BY <2>4 DEF Observed
  <2> QED BY <2>1, <2>2, <2>3, <2>4
<1>3. b \in Block
  <2>1. Fresh \in Block BY NoRowIs
  <2>2. CASE b = [Fresh EXCEPT !.st = "NEEDED", !.landed = row.blocks[at].landed + 1]
             /\ row.blocks[at].landed + 1 < MaxLanded
    <3>1. row.blocks[at].landed + 1 \in 0..MaxLanded BY <1>0, <2>2, StartupAssumption DEF Block
    <3> HIDE DEF b
    <3> QED BY <2>1, <2>2, <3>1 DEF Block
  <2> HIDE DEF b
  <2> QED BY <1>0, <1>1, <2>2 DEF Block
<1>7. Became(b)
  <2> HIDE DEF b
  <2>1. row.blocks[at] \in Block /\ Fresh.order = "none" /\ Fresh.landed = 0 BY <1>0 DEF Fresh
  <2> QED BY <1>1, <2>1 DEF Became, Block, Fresh
<1>4. \/ row' = row /\ journal' = journal /\ b = row.blocks[at] /\ pc' = After(b)
      \/ row.blocks[at].st # "COMPLETE" /\ Saves([row EXCEPT !.blocks[at] = b], After(b))
  BY <1>2 DEF Observe
<1>5. UNCHANGED <<goal, boarded, out, roster, cur, restored, at, seen, proved, given>>
  BY DEF Observe, world, told
<1> HIDE DEF b
<1>8. /\ After(b) \in {"check", "paused", "idle", "choose"}
      /\ After(b) = "check" => b.st = "COMPLETE"
      /\ After(b) = "choose" => b.st \in {"fresh", "NEEDED"}
  BY <1>3 DEF After, Block
<1>6. ASSUME Saves([row EXCEPT !.blocks[at] = b], After(b))
      PROVE  Written(b) /\ pc' \in {After(b), "paused"}
  <2>1. LET new == [row EXCEPT !.blocks[at] = b] IN
        /\ new \in RowSet /\ new.st = row.st /\ new.at = row.at /\ new.blocks[at] = b
        /\ \A t \in Prefix \ {at} : new.blocks[t] = row.blocks[t]
    BY <1>0, <1>3, BlockWritten
  <2> DEFINE new == [row EXCEPT !.blocks[at] = b]
  <2>2. new \in RowSet /\ Saves(new, After(b)) BY <1>6, <2>1
  <2> HIDE DEF new
  <2>3. /\ row' = new /\ Elsewhere
        /\ \/ journal'[cur] = row' /\ pc' = After(b)
           \/ journal'[cur] = journal[cur] /\ pc' = "paused"
    BY <1>0, <2>2, SavesDoes
  <2> QED BY <2>1, <2>2, <2>3 DEF Written, new
<1> QED BY <1>0, <1>3, <1>4, <1>5, <1>6, <1>7, <1>8

\* checkpoint(): the position is moved once it is saved, or MAIN was entered in memory.
LEMMA CheckpointDoes ==
  ASSUME TypeOK, Owned, AtWork, Checkpoint
  PROVE  /\ pc = "check" /\ at \in Prefix /\ cur \in Runs /\ Elsewhere
         /\ \/ row.at = Main /\ row' = row /\ journal'[cur] = journal[cur] /\ at' = at + 1 /\ pc' = "idle"
            \/ /\ row.at # Main /\ row' \in RowSet
               /\ row'.st = row.st /\ row'.at = at + 1 /\ row'.blocks = row.blocks
               /\ \/ journal'[cur] = row' /\ pc' = "idle" /\ at' = at + 1
                  \/ journal'[cur] = journal[cur] /\ pc' = "paused" /\ at' = at
         /\ UNCHANGED <<goal, boarded, out, roster, cur, restored, seen, proved, given>>
<1>1. pc = "check" /\ at \in Prefix /\ cur \in Runs BY Typed DEF Checkpoint, AtWork, Owned
<1>2. UNCHANGED <<goal, boarded, out, roster, cur, restored, seen, proved, given>>
  BY DEF Checkpoint, world, told
<1>3. CASE row.at = Main BY <1>1, <1>2, <1>3, Typed DEF Checkpoint, Elsewhere
<1>4. CASE row.at # Main
  <2>1. at + 1 \in 1..Main BY <1>1, StartupAssumption DEF Prefix, Main
  <2>2. Saves([row EXCEPT !.at = at + 1], "idle") /\ at' = IF pc' = "idle" THEN at + 1 ELSE at
    BY <1>4 DEF Checkpoint
  <2>3. /\ row' = [row EXCEPT !.at = at + 1] /\ Elsewhere
        /\ \/ journal'[cur] = row' /\ pc' = "idle"
           \/ journal'[cur] = journal[cur] /\ pc' = "paused"
    BY <1>1, <2>1, <2>2, AtWritten, SavesDoes, Typed
  <2>4. row' \in RowSet /\ row'.st = row.st /\ row'.at = at + 1 /\ row'.blocks = row.blocks
    BY <2>1, <2>3, AtWritten, Typed
  <2> QED BY <1>1, <1>2, <1>4, <2>2, <2>3, <2>4
<1> QED BY <1>3, <1>4

\* beforeIssue(): refused, saved and let through, or changed in memory and paused.
LEMMA BeforeIssueDoes ==
  ASSUME TypeOK, Owned, AtWork, NEW k \in Orders, BeforeIssue(k)
  PROVE  /\ pc = "choose" /\ at \in Prefix /\ cur \in Runs /\ (k = "board" => at \in Refits)
         /\ UNCHANGED <<goal, boarded, out, roster, cur, restored, at, seen, proved, given>>
         /\ \/ pc' = "paused" /\ row' = row /\ journal' = journal
            \/ /\ row.blocks[at].st \notin Settling /\ pc' \in {"issue", "paused"}
               /\ \E b \in Block : /\ Written(b) /\ b.st = "PENDING" /\ b.order = k
                                  /\ b.landed = row.blocks[at].landed
<1> DEFINE b == [row.blocks[at] EXCEPT !.st = "PENDING", !.order = k]
<1>1. pc = "choose" /\ at \in Prefix /\ cur \in Runs /\ (k = "board" => at \in Refits)
  BY Typed DEF BeforeIssue, AtWork, Owned
<1>2. UNCHANGED <<goal, boarded, out, roster, cur, restored, at, seen, proved, given>>
  BY DEF BeforeIssue, world, told
<1>3. row.blocks[at] \in Block /\ row \in RowSet BY <1>1, Typed
<1>4. b \in Block BY <1>3 DEF Block
<1>5. \/ pc' = "paused" /\ row' = row /\ journal' = journal
      \/ row.blocks[at].st \notin Settling /\ Saves([row EXCEPT !.blocks[at] = b], "issue")
  BY DEF BeforeIssue, Fenced, Settling
<1>7. b.st = "PENDING" /\ b.order = k /\ b.landed = row.blocks[at].landed BY <1>3 DEF Block
<1> HIDE DEF b
<1>6. ASSUME Saves([row EXCEPT !.blocks[at] = b], "issue")
      PROVE  Written(b) /\ pc' \in {"issue", "paused"}
  <2>1. LET new == [row EXCEPT !.blocks[at] = b] IN
        /\ new \in RowSet /\ new.st = row.st /\ new.at = row.at /\ new.blocks[at] = b
        /\ \A t \in Prefix \ {at} : new.blocks[t] = row.blocks[t]
    BY <1>1, <1>3, <1>4, BlockWritten
  <2> DEFINE new == [row EXCEPT !.blocks[at] = b]
  <2>2. new \in RowSet /\ Saves(new, "issue") BY <1>6, <2>1
  <2> HIDE DEF new
  <2>3. /\ row' = new /\ Elsewhere
        /\ \/ journal'[cur] = row' /\ pc' = "issue"
           \/ journal'[cur] = journal[cur] /\ pc' = "paused"
    BY <1>1, <2>2, SavesDoes
  <2> QED BY <2>1, <2>2, <2>3 DEF Written, new
<1> QED BY <1>1, <1>2, <1>4, <1>5, <1>6, <1>7

\* The row of a run begun, as it is on disk.
LEMMA OpensDoes ==
  ASSUME TypeOK, Owned, NEW r \in Runs, Opens(r)
  PROVE  /\ cur = None /\ cur' = r /\ roster' = r /\ pc' = "idle" /\ at' = 1 /\ restored' = {}
         /\ journal' \in RunRows /\ \A q \in Runs \ {r} : journal'[q] = journal[q]
         /\ row' \in RowSet /\ journal'[r] = row' /\ row'.at = 1 /\ row'.st = "open"
         /\ \A s \in Prefix : row'.blocks[s] = Fresh
         /\ journal[r] = NoRow /\ (r \notin Prepared => \A q \in Runs : Unproven(journal[q]) = {})
         /\ reads' = [s \in Prefix |-> 0] /\ seen' = Nothing
         /\ UNCHANGED <<goal, boarded, out, proved, given, mishaps>>
<1>1. journal[r] = NoRow BY DEF Opens, Owned
<1>2. row' = [NoRow EXCEPT !.st = "open"] BY DEF Opens, Flies
<1>3. row' \in RowSet /\ row'.at = 1 /\ row'.st = "open" /\ row'.blocks = NoRow.blocks
  BY <1>2, NoRowIs, StWritten
<1>4. journal'[r] = row' /\ journal' \in RunRows /\ \A q \in Runs \ {r} : journal'[q] = journal[q]
  BY <1>1, <1>2, <1>3, Typed DEF Opens, RunRows
<1>5. at' = 1 BY <1>2, <1>3 DEF Opens, Flies
<1>6. restored' = {} BY <1>2, <1>3, NoRowIs DEF Opens, Flies, Unproven, Fresh
<1>7. r \notin Prepared => \A q \in Runs : Unproven(journal[q]) = {} BY DEF Opens, EarlierUnproven
<1> QED BY <1>1, <1>3, <1>4, <1>5, <1>6, <1>7, NoRowIs DEF Opens, Flies, world, told

\* A run taken up again is as it is on disk.
LEMMA ReopensDoes ==
  ASSUME TypeOK, Owned, Reopens
  PROVE  /\ cur = None /\ cur' \in Runs /\ cur' = roster /\ pc' = "idle" /\ at' = row'.at
         /\ row' = journal[cur'] /\ restored' = Unproven(row')
         /\ reads' = [s \in Prefix |-> 0] /\ seen' = Nothing
         /\ UNCHANGED <<goal, boarded, out, journal, roster, proved, given, mishaps>>
BY Typed DEF Reopens, Flies, world, disk, told

\* What the tick does between its reads and writes, and what the host does to a run.
Quiet == Drops \/ Stops \/ Resumes \/ Unreadable \/ MainTick \/ Waits

\* They leave the rows, the orders and the world alone.
LEMMA QuietDoes ==
  ASSUME TypeOK, Owned, AtWork, Quiet
  PROVE  /\ UNCHANGED <<goal, boarded, out, journal, cur, row, restored, reads, at, seen, proved,
                        given, mishaps>>
         /\ pc' \in {pc, "ending", "idle", "paused"} /\ (pc = "off" <=> pc' = "off")
         /\ pc \in {"issued", "uncertain"} => pc' = pc
         /\ (roster' = roster \/ (roster' = None /\ cur = None))
<1>1. CASE Stops
  <2>1. cur # None /\ Unproven(journal[cur]) = {} BY <1>1 DEF Stops
  <2>2. pc \notin {"issued", "uncertain"} BY <2>1 DEF Unproven, AtWork
  <2> QED BY <1>1, <2>1, <2>2 DEF Stops, Owned, world, disk, told
<1>2. CASE Drops \/ Resumes \/ Unreadable \/ MainTick \/ Waits
  BY <1>2, StartupAssumption DEF Drops, Resumes, Unreadable, MainTick, Waits, Owned, world, disk,
     memory, told
<1> QED BY <1>1, <1>2 DEF Quiet

\* A run ended is written as it is in memory.
LEMMA EndedDoes ==
  ASSUME TypeOK, Owned, Ended
  PROVE  /\ pc = "ending" /\ cur \in Runs /\ Elsewhere
         /\ UNCHANGED <<goal, boarded, out, proved, given>>
         /\ \/ UNCHANGED <<journal, roster, cur, row, restored, reads, at, pc, seen>>
            \/ /\ journal'[cur].blocks = row.blocks /\ journal'[cur].at = row.at
               /\ journal'[cur].st = "ended"
               /\ cur' = None /\ roster' = None /\ pc' = "off" /\ row' = NoRow
               /\ at' = 1 /\ restored' = {} /\ seen' = Nothing /\ reads' = [s \in Prefix |-> 0]
<1>1. pc = "ending" /\ cur \in Runs BY Typed DEF Ended, Owned
<1>2. UNCHANGED <<goal, boarded, out, proved, given>> BY DEF Ended, world, told
<1>3. CASE UNCHANGED <<journal, roster, cur, row, restored, reads, at, pc, seen>>
  BY <1>1, <1>2, <1>3, Typed DEF Elsewhere
<1>4. CASE /\ journal' = [journal EXCEPT ![cur] = [row EXCEPT !.st = "ended"]]
           /\ cur' = None /\ roster' = None /\ pc' = "off" /\ row' = NoRow
           /\ at' = 1 /\ restored' = {} /\ seen' = Nothing /\ reads' = [s \in Prefix |-> 0]
  <2>1. LET new == [row EXCEPT !.st = "ended"] IN
        new \in RowSet /\ new.at = row.at /\ new.st = "ended" /\ new.blocks = row.blocks
    BY StWritten, Typed
  <2>2. journal' \in RunRows /\ journal'[cur] = [row EXCEPT !.st = "ended"]
        /\ \A r \in Runs \ {cur} : journal'[r] = journal[r]
    BY <1>1, <1>4, <2>1, Typed DEF RunRows
  <2> QED BY <1>1, <1>2, <1>4, <2>1, <2>2 DEF Elsewhere
<1> QED BY <1>3, <1>4 DEF Ended, disk, memory

\* An order is given.
LEMMA IssueDoes ==
  ASSUME TypeOK, Owned, AtWork, Issue
  PROVE  /\ pc = "issue" /\ pc' = "issued" /\ cur \in Runs /\ at \in Prefix
         /\ out' \in Counts /\ out'[cur][at] = out[cur][at] + 1
         /\ given' \in Counts /\ given'[cur][at] = given[cur][at] + 1
         /\ \A r \in Runs, s \in Prefix :
              r # cur \/ s # at => out'[r][s] = out[r][s] /\ given'[r][s] = given[r][s]
         /\ UNCHANGED <<goal, boarded, disk, cur, row, restored, reads, at, seen, proved, mishaps>>
<1>1. pc = "issue" /\ cur \in Runs /\ at \in Prefix BY Typed DEF Issue, AtWork, Owned
<1>2. out[cur][at] + 1 \in Nat /\ given[cur][at] + 1 \in Nat BY <1>1, Typed
<1>3. out' = [out EXCEPT ![cur][at] = out[cur][at] + 1]
      /\ given' = [given EXCEPT ![cur][at] = given[cur][at] + 1]
  BY DEF Issue
<1>c. out \in Counts /\ given \in Counts BY Typed
<1>4. /\ out' \in Counts /\ out'[cur][at] = out[cur][at] + 1
      /\ \A q \in Runs, t \in Prefix : q # cur \/ t # at => out'[q][t] = out[q][t]
  BY <1>1, <1>2, <1>3, <1>c DEF Counts
<1>5. /\ given' \in Counts /\ given'[cur][at] = given[cur][at] + 1
      /\ \A q \in Runs, t \in Prefix : q # cur \/ t # at => given'[q][t] = given[q][t]
  BY <1>1, <1>2, <1>3, <1>c DEF Counts
<1> QED BY <1>1, <1>3, <1>4, <1>5 DEF Issue

\* An order that is carried out, by the game server, now or late.
Carried(r, s) ==
  /\ out' \in Counts /\ out'[r][s] = out[r][s] - 1
  /\ \A q \in Runs, t \in Prefix : q # r \/ t # s => out'[q][t] = out[q][t]
  /\ goal' \subseteq Prefix /\ boarded' \subseteq Prefix

\* What an order does to the world.
LEMMA EffectDoes ==
  ASSUME TypeOK, NEW s \in Prefix, NEW k, Effect(s, k)
  PROVE  goal' \subseteq Prefix /\ boarded' \subseteq Prefix
BY DEF Effect, TypeOK

\* An order carried out is out no more.
LEMMA CarriedDoes ==
  ASSUME TypeOK, NEW r \in Runs, NEW s \in Prefix, NEW k, out[r][s] > 0,
         out' = [out EXCEPT ![r][s] = @ - 1], Effect(s, k)
  PROVE  Carried(r, s)
<1>1. out[r][s] - 1 \in Nat BY Typed
<1>c. out \in Counts BY Typed
<1>2. /\ out' \in Counts /\ out'[r][s] = out[r][s] - 1
      /\ \A q \in Runs, t \in Prefix : q # r \/ t # s => out'[q][t] = out[q][t]
  BY <1>1, <1>c DEF Counts
<1>3. goal' \subseteq Prefix /\ boarded' \subseteq Prefix BY EffectDoes
<1> QED BY <1>2, <1>3 DEF Carried

\* An answer comes, or is not waited for any longer.
LEMMA AnswerDoes ==
  ASSUME TypeOK, Owned, AtWork, OrdersKnown, Answer
  PROVE  /\ pc = "issued" /\ cur \in Runs /\ at \in Prefix
         /\ \/ pc' = "idle" /\ Carried(cur, at)
            \/ pc' = "uncertain" /\ UNCHANGED <<goal, boarded, out>>
         /\ UNCHANGED <<disk, cur, row, restored, reads, at, seen, proved, given>>
<1>1. pc = "issued" /\ cur \in Runs /\ at \in Prefix BY Typed DEF Answer, AtWork, Owned
<1>2. out[cur][at] > 0 BY <1>1 DEF OrdersKnown
<1>3. CASE out' = [out EXCEPT ![cur][at] = @ - 1] /\ Effect(at, row.blocks[at].order) /\ pc' = "idle"
  BY <1>1, <1>2, <1>3, CarriedDoes DEF Answer, told
<1> QED BY <1>1, <1>3 DEF Answer, world, told

\* An order is carried out that nobody waits for.
LEMMA LateCarriedDoes ==
  ASSUME TypeOK, NEW r \in Runs, NEW s \in Prefix, LateCarried(r, s)
  PROVE  Carried(r, s) /\ out[r][s] > IF AwaitedBy(r, s) THEN 1 ELSE 0
<1>1. out[r][s] > IF AwaitedBy(r, s) THEN 1 ELSE 0 BY DEF LateCarried
<1>2. out[r][s] \in Nat BY Typed
<1>3. out[r][s] > 0 BY <1>1, <1>2
<1>4. out' = [out EXCEPT ![r][s] = @ - 1] /\ Effect(s, journal[r].blocks[s].order)
  BY DEF LateCarried
<1> QED BY <1>1, <1>3, <1>4, CarriedDoes

\* The position stands while the block of the step at work is written.
LEMMA WrittenInPlace ==
  ASSUME TypeOK, Owned, InPlace, cur \in Runs, at \in Prefix, row.blocks[at].st # "COMPLETE",
         NEW b \in Block, Written(b), UNCHANGED <<cur, at>>
  PROVE  InPlace'
<1>1. cur # None /\ row.at = at /\ journal[cur].at = at
      /\ \A s \in Prefix : s < at => row.blocks[s].st = "COMPLETE"
  BY StartupAssumption DEF InPlace
<1>2. at \in Nat /\ \A s \in Prefix : s \in Nat /\ (s < at => s # at) BY Places
<1>3. \A s \in Prefix : s < at => row'.blocks[s].st = "COMPLETE" BY <1>1, <1>2 DEF Written
<1>4. row'.at = at BY <1>1 DEF Written
<1>5. journal'[cur].at = at BY <1>1, <1>4 DEF Written
<1>6. \A r \in Runs, s \in Prefix : s < journal'[r].at => journal'[r].blocks[s].st = "COMPLETE"
  <2>1. \A s \in Prefix : s < at => journal'[cur].blocks[s].st = "COMPLETE"
    BY <1>1, <1>3 DEF Written, InPlace
  <2> QED BY <1>5, <2>1 DEF Written, Elsewhere, InPlace
<1> QED BY <1>1, <1>3, <1>4, <1>5, <1>6, Places DEF InPlace

\* A block is written that accounts for the orders given of its step.
LEMMA WrittenCounted ==
  ASSUME TypeOK, Counted, cur \in Runs, at \in Prefix, NEW b \in Block, Written(b),
         given[cur][at] <= Spent(b), BlockOK(b, at), UNCHANGED <<cur, at, given>>,
         pc' = "issue" => given[cur][at] <= b.landed
  PROVE  Counted'
<1>1. \A s \in Prefix : given[cur][s] <= Spent(row'.blocks[s]) /\ BlockOK(row'.blocks[s], s)
  BY DEF Written, Counted
<1>2. \A s \in Prefix : given[cur][s] <= Spent(journal'[cur].blocks[s])
                        /\ BlockOK(journal'[cur].blocks[s], s)
  BY <1>1 DEF Written, Counted
<1>3. pc' = "issue" => /\ given[cur][at] <= row'.blocks[at].landed
                       /\ given[cur][at] <= journal'[cur].blocks[at].landed
  BY DEF Written
<1> QED BY <1>1, <1>2, <1>3 DEF Counted, Written, Elsewhere

\* A block is written that forgets no order.
LEMMA WrittenOrders ==
  ASSUME TypeOK, Owned, InPlace, OrdersKnown, cur \in Runs, at \in Prefix, NEW b \in Block, Written(b),
         row.blocks[at].st # "COMPLETE", pc \notin {"issued", "uncertain"}, pc' # "issued",
         b.st \notin Settling => at \notin restored /\ ~(out[cur][at] > 0),
         UNCHANGED <<cur, at, out, restored>>
  PROVE  OrdersKnown'
<1>1. cur # None /\ row.at = at /\ journal[cur].at = at BY StartupAssumption DEF InPlace
<1>2. row'.at = at /\ journal'[cur].at = at BY <1>1 DEF Written
<1>3. \A s \in restored : row'.blocks[s].st \in Settling BY Typed DEF Written, OrdersKnown, TypeOK
<1>4. \A s \in Prefix : out[cur][s] > 0 =>
        /\ row'.blocks[s].st \in Settling /\ journal'[cur].blocks[s].st \in Settling
        /\ s <= journal'[cur].at
        /\ s \in restored \/ (journal'[cur].blocks[s].st = "COMPLETE" /\ row'.blocks[s].st = "COMPLETE")
  <2>1. ASSUME NEW s \in Prefix, out[cur][s] > 0, s # at
        PROVE  /\ row'.blocks[s] = row.blocks[s] /\ journal'[cur].blocks[s].st \in Settling
               /\ s \in restored \/ (journal'[cur].blocks[s].st = "COMPLETE" /\ row'.blocks[s].st = "COMPLETE")
    <3>1. /\ row'.blocks[s] = row.blocks[s] /\ row.blocks[s].st \in Settling
          /\ journal[cur].blocks[s].st \in Settling
          /\ s \in restored \/ (journal[cur].blocks[s].st = "COMPLETE" /\ row.blocks[s].st = "COMPLETE")
      BY <2>1 DEF Written, OrdersKnown
    <3>2. CASE journal'[cur] = row' BY <3>1, <3>2
    <3>3. CASE journal'[cur] = journal[cur] BY <3>1, <3>3
    <3> QED BY <3>1, <3>2, <3>3 DEF Written
  <2>3. \A s \in Prefix : out[cur][s] > 0 => s <= at /\ row.blocks[s].st \in Settling
    BY <1>1 DEF OrdersKnown
  <2>2. ASSUME out[cur][at] > 0
        PROVE  /\ row'.blocks[at].st \in Settling /\ journal'[cur].blocks[at].st \in Settling
               /\ at \in restored
    BY <2>2 DEF Written, OrdersKnown
  <2> QED BY <1>2, <2>1, <2>2, <2>3
<1> QED BY <1>3, <1>4 DEF OrdersKnown, Written, Elsewhere

\* What lies ahead stays untouched while the block of the step at work is written.
LEMMA WrittenUntouched ==
  ASSUME TypeOK, Untouched, InPlace, cur \in Runs, at \in Prefix, row.blocks[at].st # "COMPLETE",
         NEW b \in Block, Written(b), UNCHANGED <<cur, at>>
  PROVE  Untouched'
<1>1. journal[cur].at = at /\ row.at = at BY StartupAssumption DEF InPlace
<1>2. \A s \in Prefix : s > at => row'.blocks[s] = Fresh BY Places DEF Written, Untouched
<1>3. \A s \in Prefix : s > journal'[cur].at => journal'[cur].blocks[s] = Fresh
  BY <1>1, <1>2 DEF Written, Untouched
<1> QED BY <1>2, <1>3 DEF Untouched, Written, Elsewhere

-----------------------------------------------------------------------------
\* What each step does to the types.
LEMMA TypeStep ==
  ASSUME TypeOK, Owned, AtWork, OrdersKnown, Next
  PROVE  TypeOK'
<1>1. ASSUME NEW r \in Runs, Opens(r) PROVE TypeOK'
  BY <1>1, OpensDoes, Typed, NoRowIs DEF TypeOK, Nothing, RunRows
<1>2. CASE Reopens
  <2>1. reads' \in [Prefix -> 0..MaxReads] /\ seen' \in [goal : SUBSET Prefix, boarded : SUBSET Prefix]
    BY <1>2, ReopensDoes, EmptyTypes
  <2>2. row' \in RowSet /\ at' \in 1..Main /\ cur' \in Runs BY <1>2, ReopensDoes, Typed
  <2>3. restored' \subseteq Prefix BY <1>2, ReopensDoes DEF Unproven
  <2> QED BY <1>2, <2>1, <2>2, <2>3, ReopensDoes DEF TypeOK
<1>3. CASE Quiet
  BY <1>3, QuietDoes DEF TypeOK
<1>4. CASE Ended
  <2>1. mishaps' \in Nat BY <1>4 DEF Ended, Mishap, TypeOK
  <2>2. journal' \in [Runs -> RowSet] BY <1>4, EndedDoes DEF Elsewhere, RunRows
  <2>3. 1 \in 1..Main BY StartupAssumption DEF Main
  <2> QED BY <1>4, <2>1, <2>2, <2>3, EndedDoes, NoRowIs, EmptyTypes DEF TypeOK
<1>5. CASE Crash
  <2>1. mishaps' \in Nat BY <1>5 DEF Crash, Mishap, TypeOK
  <2>2. 1 \in 1..Main BY StartupAssumption DEF Main
  <2> QED BY <1>5, <2>1, <2>2, NoRowIs, EmptyTypes DEF Crash, TypeOK, world, told
<1>6. CASE Reads
  BY <1>6 DEF Reads, world, disk, TypeOK
<1>7. CASE Observe
  <2>1. mishaps' \in Nat BY <1>7 DEF Observe, Saves, Mishap, TypeOK
  <2>2. reads' \in [Prefix -> 0..MaxReads]
    <3>1. reads \in [Prefix -> 0..MaxReads] /\ MaxReads \in Nat BY Typed
    <3> DEFINE n == IF Observed(at).st = "NEEDED" THEN 0
                    ELSE IF Observed(at).st \in {"PENDING", "BLOCKED"} /\ reads[at] < MaxReads
                           THEN reads[at] + 1 ELSE reads[at]
    <3>2. n \in 0..MaxReads BY <1>7, <3>1, ObserveDoes
    <3>3. reads' = [reads EXCEPT ![at] = n] BY <1>7 DEF Observe
    <3> QED BY <3>1, <3>2, <3>3
  <2>3. row' \in RowSet /\ journal' \in [Runs -> RowSet]
    BY <1>7, ObserveDoes, Typed DEF Written, Elsewhere, RunRows
  <2> QED BY <1>7, <2>1, <2>2, <2>3, ObserveDoes DEF TypeOK
<1>8. CASE Checkpoint
  <2>1. mishaps' \in Nat BY <1>8 DEF Checkpoint, Saves, Mishap, TypeOK
  <2>2. reads' = reads BY <1>8 DEF Checkpoint
  <2>3. journal' \in [Runs -> RowSet] BY <1>8, CheckpointDoes DEF Elsewhere, RunRows
  <2>4. row' \in RowSet BY <1>8, CheckpointDoes, Typed
  <2>5. at' \in 1..Main BY <1>8, CheckpointDoes, StartupAssumption DEF Prefix, Main
  <2> QED BY <1>8, <2>1, <2>2, <2>3, <2>4, <2>5, CheckpointDoes DEF TypeOK
<1>9. ASSUME NEW k \in Orders, BeforeIssue(k) PROVE TypeOK'
  <2>1. mishaps' \in Nat BY <1>9 DEF BeforeIssue, Saves, Mishap, TypeOK
  <2>2. reads' = reads BY <1>9 DEF BeforeIssue
  <2>3. row' \in RowSet /\ journal' \in [Runs -> RowSet]
    BY <1>9, BeforeIssueDoes, Typed DEF Written, Elsewhere, RunRows
  <2> QED BY <1>9, <2>1, <2>2, <2>3, BeforeIssueDoes DEF TypeOK
<1>10. CASE Issue
  BY <1>10, IssueDoes DEF disk, TypeOK, Counts
<1>11. CASE Answer
  <2>1. mishaps' \in Nat BY <1>11 DEF Answer, Mishap, TypeOK
  <2>2. out' \in [Runs -> [Prefix -> Nat]] /\ goal' \subseteq Prefix /\ boarded' \subseteq Prefix
    BY <1>11, AnswerDoes DEF Carried, Counts, TypeOK
  <2> QED BY <1>11, <2>1, <2>2, AnswerDoes DEF TypeOK, disk
<1>12. ASSUME NEW s \in Prefix, Otherwise(s) PROVE TypeOK'
  BY <1>12 DEF Otherwise, disk, memory, told, Mishap, TypeOK
<1>13. ASSUME NEW r \in Runs, NEW s \in Prefix, LateCarried(r, s) PROVE TypeOK'
  BY <1>13, LateCarriedDoes DEF Carried, LateCarried, disk, memory, told, TypeOK, Counts
<1> QED
  BY <1>1, <1>2, <1>3, <1>4, <1>5, <1>6, <1>7, <1>8, <1>9, <1>10, <1>11, <1>12, <1>13 DEF Next,
     Tick, Quiet

\* Only opening and ending a run changes who is listed, and opening lists who flies.
LEMMA OwnedStep ==
  ASSUME TypeOK, Owned, AtWork, OrdersKnown, Next
  PROVE  Owned'
<1>1. ASSUME NEW r \in Runs, Opens(r) PROVE Owned'
  BY <1>1, OpensDoes, StartupAssumption DEF Owned
<1>2. CASE Reopens
  BY <1>2, ReopensDoes, StartupAssumption DEF Owned
<1>3. CASE Quiet
  BY <1>3, QuietDoes DEF Owned
<1>4. CASE Ended
  BY <1>4, EndedDoes DEF Elsewhere, Owned
<1>5. CASE Crash
  BY <1>5 DEF Crash, Owned
<1>6. CASE Reads
  BY <1>6 DEF Reads, disk, Owned
<1>7. CASE Observe
  <2>1. CASE row' = row /\ journal' = journal BY <1>7, <2>1, ObserveDoes DEF Owned
  <2>2. CASE \E b \in Block : Written(b)
    BY <1>7, <2>2, ObserveDoes, OwnedElsewhere DEF Written, Owned
  <2> QED BY <1>7, <2>1, <2>2, ObserveDoes
<1>8. CASE Checkpoint
  BY <1>8, CheckpointDoes, OwnedElsewhere DEF Owned
<1>9. ASSUME NEW k \in Orders, BeforeIssue(k) PROVE Owned'
  <2>1. CASE row' = row /\ journal' = journal BY <1>9, <2>1, BeforeIssueDoes DEF Owned
  <2>2. CASE \E b \in Block : Written(b)
    BY <1>9, <2>2, BeforeIssueDoes, OwnedElsewhere DEF Written, Owned
  <2> QED BY <1>9, <2>1, <2>2, BeforeIssueDoes
<1>10. CASE Issue
  BY <1>10, IssueDoes DEF disk, Owned
<1>11. CASE Answer
  BY <1>11, AnswerDoes DEF disk, Owned
<1>12. ASSUME NEW s \in Prefix, Otherwise(s) PROVE Owned'
  BY <1>12 DEF Otherwise, disk, memory, Owned
<1>13. ASSUME NEW r \in Runs, NEW s \in Prefix, LateCarried(r, s) PROVE Owned'
  BY <1>13 DEF LateCarried, disk, memory, Owned
<1> QED
  BY <1>1, <1>2, <1>3, <1>4, <1>5, <1>6, <1>7, <1>8, <1>9, <1>10, <1>11, <1>12, <1>13 DEF Next,
     Tick, Quiet

\* The tick comes to a place only by the step that leads there.
LEMMA AtWorkStep ==
  ASSUME TypeOK, Owned, AtWork, OrdersKnown, Next
  PROVE  AtWork'
<1>1. ASSUME NEW r \in Runs, Opens(r) PROVE AtWork'
  BY <1>1, OpensDoes DEF AtWork
<1>2. CASE Reopens
  BY <1>2, ReopensDoes DEF AtWork
<1>3. CASE Quiet
  BY <1>3, QuietDoes DEF AtWork
<1>4. CASE Ended
  BY <1>4, EndedDoes DEF AtWork
<1>5. CASE Crash
  BY <1>5 DEF Crash, AtWork
<1>6. CASE Reads
  BY <1>6 DEF Reads, AtWork
<1>7. CASE Observe
  BY <1>7, ObserveDoes DEF Written, AtWork
<1>8. CASE Checkpoint
  BY <1>8, CheckpointDoes DEF AtWork
<1>9. ASSUME NEW k \in Orders, BeforeIssue(k) PROVE AtWork'
  BY <1>9, BeforeIssueDoes DEF Written, AtWork, OrdersKnown
<1>10. CASE Issue
  BY <1>10, IssueDoes DEF disk, AtWork
<1>11. CASE Answer
  BY <1>11, AnswerDoes DEF disk, AtWork
<1>12. ASSUME NEW s \in Prefix, Otherwise(s) PROVE AtWork'
  BY <1>12 DEF Otherwise, disk, memory, AtWork
<1>13. ASSUME NEW r \in Runs, NEW s \in Prefix, LateCarried(r, s) PROVE AtWork'
  BY <1>13 DEF LateCarried, disk, memory, AtWork
<1> QED
  BY <1>1, <1>2, <1>3, <1>4, <1>5, <1>6, <1>7, <1>8, <1>9, <1>10, <1>11, <1>12, <1>13 DEF Next,
     Tick, Quiet

\* A block becomes complete only by what was read and is proved.
LEMMA CompleteStep ==
  ASSUME TypeOK, Owned, AtWork, OrdersKnown, CompleteSeen, Next
  PROVE  CompleteSeen'
<1>1. ASSUME NEW r \in Runs, Opens(r) PROVE CompleteSeen'
  BY <1>1, OpensDoes DEF CompleteSeen, Nothing, Fresh
<1>2. CASE Reopens
  BY <1>2, ReopensDoes DEF CompleteSeen, Nothing
<1>3. CASE Quiet
  BY <1>3, QuietDoes DEF CompleteSeen
<1>4. CASE Ended
  BY <1>4, EndedDoes, StartupAssumption DEF Elsewhere, CompleteSeen
<1>5. CASE Crash
  BY <1>5 DEF Crash, told, NoRow, CompleteSeen, Fresh
<1>6. CASE Reads
  BY <1>6, Typed DEF Reads, disk, CompleteSeen
<1>7. CASE Observe
  BY <1>7, ObserveDoes DEF Written, Elsewhere, Became, Owned, CompleteSeen
<1>8. CASE Checkpoint
  BY <1>8, CheckpointDoes DEF Elsewhere, CompleteSeen
<1>9. ASSUME NEW k \in Orders, BeforeIssue(k) PROVE CompleteSeen'
  BY <1>9, BeforeIssueDoes DEF Written, Elsewhere, CompleteSeen
<1>10. CASE Issue
  BY <1>10, IssueDoes DEF disk, CompleteSeen
<1>11. CASE Answer
  BY <1>11, AnswerDoes DEF disk, CompleteSeen
<1>12. ASSUME NEW s \in Prefix, Otherwise(s) PROVE CompleteSeen'
  BY <1>12 DEF Otherwise, disk, memory, told, CompleteSeen
<1>13. ASSUME NEW r \in Runs, NEW s \in Prefix, LateCarried(r, s) PROVE CompleteSeen'
  BY <1>13 DEF LateCarried, disk, memory, told, CompleteSeen
<1> QED
  BY <1>1, <1>2, <1>3, <1>4, <1>5, <1>6, <1>7, <1>8, <1>9, <1>10, <1>11, <1>12, <1>13 DEF Next,
     Tick, Quiet

\* The position is moved only over a complete step, in memory after it is saved.
LEMMA InPlaceStep ==
  ASSUME TypeOK, Owned, AtWork, OrdersKnown, InPlace, Next
  PROVE  InPlace'
<1>1. ASSUME NEW r \in Runs, Opens(r) PROVE InPlace'
  <2>1. \A s \in Prefix : ~(s < 1) BY Places
  <2>2. \A q \in Runs, s \in Prefix : s < journal'[q].at => journal'[q].blocks[s].st = "COMPLETE"
    BY <1>1, <2>1, OpensDoes DEF InPlace
  <2> QED BY <1>1, <2>1, <2>2, OpensDoes, Places DEF InPlace
<1>2. CASE Reopens
  BY <1>2, ReopensDoes DEF InPlace
<1>3. CASE Quiet
  BY <1>3, QuietDoes DEF InPlace
<1>4. CASE Ended
  <2>1. CASE UNCHANGED <<journal, cur, row, at>> BY <1>4, <2>1, EndedDoes DEF InPlace
  <2>2. CASE cur' = None /\ journal'[cur].blocks = row.blocks /\ journal'[cur].at = row.at
    BY <1>4, <2>2, EndedDoes, StartupAssumption DEF InPlace, Elsewhere
  <2> QED BY <1>4, <2>1, <2>2, EndedDoes
<1>5. CASE Crash
  BY <1>5 DEF Crash, InPlace
<1>6. CASE Reads
  BY <1>6 DEF Reads, disk, InPlace
<1>7. CASE Observe
  <2>1. CASE row' = row /\ journal' = journal BY <1>7, <2>1, ObserveDoes DEF InPlace
  <2>2. ASSUME NEW b \in Block, Written(b), row.blocks[at].st # "COMPLETE" PROVE InPlace'
    BY <1>7, <2>2, ObserveDoes, WrittenInPlace
  <2> QED BY <1>7, <2>1, <2>2, ObserveDoes
<1>8. CASE Checkpoint
  <2>0. /\ cur \in Runs /\ at \in Prefix /\ row.blocks[at].st = "COMPLETE" /\ journal[cur].at = at
        /\ row.at \in {at, at + 1} /\ cur' = cur /\ cur # None
        /\ \A s \in Prefix : s < row.at => row.blocks[s].st = "COMPLETE"
    BY <1>8, CheckpointDoes, StartupAssumption DEF InPlace, AtWork
  <2>1. \A s \in Prefix : s < at + 1 => row.blocks[s].st = "COMPLETE" BY <2>0, Places
  <2>2. CASE row.at = Main /\ row' = row /\ journal'[cur] = journal[cur] /\ at' = at + 1
    <3>1. at' = Main BY <2>0, <2>2, Places
    <3> QED BY <1>8, <2>0, <2>2, <3>1, CheckpointDoes, Places DEF InPlace, Elsewhere
  <2>3. CASE row'.at = at + 1 /\ row'.blocks = row.blocks /\ journal'[cur] = row' /\ at' = at + 1
    <3>1. \A r \in Runs, s \in Prefix : s < journal'[r].at => journal'[r].blocks[s].st = "COMPLETE"
      BY <1>8, <2>1, <2>3, CheckpointDoes DEF InPlace, Elsewhere
    <3> QED BY <2>0, <2>1, <2>3, <3>1, Places DEF InPlace
  <2>4. CASE /\ row'.at = at + 1 /\ row'.blocks = row.blocks
             /\ journal'[cur] = journal[cur] /\ at' = at
    <3>1. \A r \in Runs, s \in Prefix : s < journal'[r].at => journal'[r].blocks[s].st = "COMPLETE"
      BY <1>8, <2>4, CheckpointDoes DEF InPlace, Elsewhere
    <3> QED BY <2>0, <2>1, <2>4, <3>1, Places DEF InPlace
  <2> QED BY <1>8, <2>2, <2>3, <2>4, CheckpointDoes
<1>9. ASSUME NEW k \in Orders, BeforeIssue(k) PROVE InPlace'
  <2>1. CASE row' = row /\ journal' = journal BY <1>9, <2>1, BeforeIssueDoes DEF InPlace
  <2>2. ASSUME NEW b \in Block, Written(b), row.blocks[at].st # "COMPLETE" PROVE InPlace'
    BY <1>9, <2>2, BeforeIssueDoes, WrittenInPlace
  <2> QED BY <1>9, <2>1, <2>2, BeforeIssueDoes DEF Settling
<1>10. CASE Issue
  BY <1>10, IssueDoes DEF disk, InPlace
<1>11. CASE Answer
  BY <1>11, AnswerDoes DEF disk, InPlace
<1>12. ASSUME NEW s \in Prefix, Otherwise(s) PROVE InPlace'
  BY <1>12 DEF Otherwise, disk, memory, InPlace
<1>13. ASSUME NEW r \in Runs, NEW s \in Prefix, LateCarried(r, s) PROVE InPlace'
  BY <1>13 DEF LateCarried, disk, memory, InPlace
<1> QED
  BY <1>1, <1>2, <1>3, <1>4, <1>5, <1>6, <1>7, <1>8, <1>9, <1>10, <1>11, <1>12, <1>13 DEF Next,
     Tick, Quiet

\* Only the block of the step at work is written.
LEMMA UntouchedStep ==
  ASSUME TypeOK, Owned, AtWork, OrdersKnown, InPlace, Untouched, Next
  PROVE  Untouched'
<1>1. ASSUME NEW r \in Runs, Opens(r) PROVE Untouched'
  <2>1. cur' = r /\ \A s \in Prefix : row'.blocks[s] = Fresh /\ journal'[r].blocks[s] = Fresh
    BY <1>1, OpensDoes
  <2> QED BY <1>1, <2>1, OpensDoes DEF Untouched
<1>2. CASE Reopens
  BY <1>2, ReopensDoes DEF Untouched
<1>3. CASE Quiet
  BY <1>3, QuietDoes DEF Untouched
<1>4. CASE Ended
  <2>1. CASE UNCHANGED <<journal, cur, row, at>> BY <1>4, <2>1, EndedDoes DEF Untouched
  <2>2. CASE cur' = None /\ journal'[cur].blocks = row.blocks /\ journal'[cur].at = row.at
    <3>1. cur # None /\ row.at >= at
      BY <1>4, EndedDoes, Places, Typed, StartupAssumption DEF InPlace
    <3>2. \A s \in Prefix : s > row.at => s > at BY <3>1, Places, Typed
    <3> QED BY <1>4, <2>2, <3>1, <3>2, EndedDoes, StartupAssumption DEF Untouched, Elsewhere
  <2> QED BY <1>4, <2>1, <2>2, EndedDoes
<1>5. CASE Crash
  BY <1>5 DEF Crash, NoRow, Untouched
<1>6. CASE Reads
  BY <1>6 DEF Reads, disk, Untouched
<1>7. CASE Observe
  <2>1. CASE row' = row /\ journal' = journal BY <1>7, <2>1, ObserveDoes DEF Untouched
  <2>2. ASSUME NEW b \in Block, Written(b), row.blocks[at].st # "COMPLETE" PROVE Untouched'
    BY <1>7, <2>2, ObserveDoes, WrittenUntouched
  <2> QED BY <1>7, <2>1, <2>2, ObserveDoes
<1>8. CASE Checkpoint
  <2>0. at \in Prefix /\ cur \in Runs /\ journal[cur].at = at
    BY <1>8, CheckpointDoes, StartupAssumption DEF InPlace
  <2>1. row'.blocks = row.blocks /\ cur' = cur /\ at' >= at
    BY <1>8, <2>0, CheckpointDoes, Places
  <2>2. \A s \in Prefix : s > at => row'.blocks[s] = Fresh BY <2>0, <2>1 DEF Untouched
  <2>3. \A s \in Prefix : s > at' => s > at
    BY <1>8, <2>0, CheckpointDoes, Places
  <2>4. \A s \in Prefix : s > journal'[cur].at => journal'[cur].blocks[s] = Fresh
    BY <1>8, <2>0, <2>1, <2>2, CheckpointDoes, Places DEF Untouched
  <2> QED BY <1>8, <2>1, <2>2, <2>3, <2>4, CheckpointDoes DEF Untouched, Elsewhere
<1>9. ASSUME NEW k \in Orders, BeforeIssue(k) PROVE Untouched'
  <2>1. CASE row' = row /\ journal' = journal BY <1>9, <2>1, BeforeIssueDoes DEF Untouched
  <2>2. ASSUME NEW b \in Block, Written(b), row.blocks[at].st # "COMPLETE" PROVE Untouched'
    BY <1>9, <2>2, BeforeIssueDoes, WrittenUntouched
  <2> QED BY <1>9, <2>1, <2>2, BeforeIssueDoes DEF Settling
<1>10. CASE Issue
  BY <1>10, IssueDoes DEF disk, Untouched
<1>11. CASE Answer
  BY <1>11, AnswerDoes DEF disk, Untouched
<1>12. ASSUME NEW s \in Prefix, Otherwise(s) PROVE Untouched'
  BY <1>12 DEF Otherwise, disk, memory, Untouched
<1>13. ASSUME NEW r \in Runs, NEW s \in Prefix, LateCarried(r, s) PROVE Untouched'
  BY <1>13 DEF LateCarried, disk, memory, Untouched
<1> QED
  BY <1>1, <1>2, <1>3, <1>4, <1>5, <1>6, <1>7, <1>8, <1>9, <1>10, <1>11, <1>12, <1>13 DEF Next,
     Tick, Quiet

\* An order is counted in its block before it is given.
LEMMA CountedStep ==
  ASSUME TypeOK, Owned, AtWork, OrdersKnown, Counted, Next
  PROVE  Counted'
<1>1. ASSUME NEW r \in Runs, Opens(r) PROVE Counted'
  <2>1. \A s \in Prefix : given[r][s] <= Spent(Fresh) /\ BlockOK(Fresh, s)
    BY <1>1, OpensDoes, NoRowIs DEF Counted
  <2> QED BY <1>1, <2>1, OpensDoes DEF Counted
<1>2. CASE Reopens
  BY <1>2, ReopensDoes DEF Counted
<1>3. CASE Quiet
  BY <1>3, QuietDoes DEF Counted
<1>4. CASE Ended
  <2>1. CASE UNCHANGED <<journal, cur, row, at, pc>> BY <1>4, <2>1, EndedDoes DEF Counted
  <2>2. CASE cur' = None /\ journal'[cur].blocks = row.blocks /\ pc' = "off"
    BY <1>4, <2>2, EndedDoes, StartupAssumption DEF Counted, Elsewhere
  <2> QED BY <1>4, <2>1, <2>2, EndedDoes
<1>5. CASE Crash
  BY <1>5, StartupAssumption DEF Crash, told, Counted
<1>6. CASE Reads
  BY <1>6 DEF Reads, disk, Counted
<1>7. CASE Observe
  <2>0. given[cur][at] <= Spent(row.blocks[at]) /\ BlockOK(row.blocks[at], at)
        /\ given[cur][at] \in Nat /\ row.blocks[at] \in Block
    BY <1>7, ObserveDoes, Typed DEF Counted
  <2>1. CASE row' = row /\ journal' = journal BY <1>7, <2>1, ObserveDoes DEF Counted
  <2>2. ASSUME NEW b \in Block, Became(b), Written(b) PROVE Counted'
    <3>1. given[cur][at] <= Spent(b) BY <2>0, <2>2 DEF Became, Spent, Settling, Block
    <3>2. BlockOK(b, at) BY <2>0, <2>2 DEF Became, BlockOK, Block
    <3> QED BY <1>7, <2>2, <3>1, <3>2, ObserveDoes, WrittenCounted
  <2> QED BY <1>7, <2>1, <2>2, ObserveDoes
<1>8. CASE Checkpoint
  BY <1>8, CheckpointDoes DEF Elsewhere, Counted
<1>9. ASSUME NEW k \in Orders, BeforeIssue(k) PROVE Counted'
  <2>0. given[cur][at] <= Spent(row.blocks[at]) /\ BlockOK(row.blocks[at], at)
        /\ given[cur][at] \in Nat /\ row.blocks[at] \in Block
    BY <1>9, BeforeIssueDoes, Typed DEF Counted
  <2>1. CASE row' = row /\ journal' = journal /\ pc' = "paused"
    BY <1>9, <2>1, BeforeIssueDoes DEF Counted
  <2>2. ASSUME row.blocks[at].st \notin Settling, NEW b \in Block, Written(b), b.st = "PENDING",
               b.order = k, b.landed = row.blocks[at].landed
        PROVE  Counted'
    <3>1. given[cur][at] <= b.landed /\ given[cur][at] <= Spent(b)
      BY <2>0, <2>2 DEF Spent, Settling, Block
    <3>2. BlockOK(b, at) BY <1>9, <2>0, <2>2, BeforeIssueDoes DEF BlockOK
    <3> QED BY <1>9, <2>2, <3>1, <3>2, BeforeIssueDoes, WrittenCounted
  <2> QED BY <1>9, <2>1, <2>2, BeforeIssueDoes
<1>10. CASE Issue
  <2>1. /\ given[cur][at] <= row.blocks[at].landed /\ row.blocks[at].st = "PENDING"
        /\ given[cur][at] <= journal[cur].blocks[at].landed /\ journal[cur].blocks[at].st = "PENDING"
        /\ given[cur][at] \in Nat /\ row.blocks[at] \in Block /\ journal[cur].blocks[at] \in Block
    BY <1>10, IssueDoes, Typed DEF Counted, AtWork
  <2>2. /\ given'[cur][at] <= Spent(row.blocks[at])
        /\ given'[cur][at] <= Spent(journal[cur].blocks[at])
    BY <1>10, <2>1, IssueDoes DEF Spent, Settling, Block
  <2> QED BY <1>10, <2>2, IssueDoes DEF Counted, disk
<1>11. CASE Answer
  BY <1>11, AnswerDoes DEF disk, Counted
<1>12. ASSUME NEW s \in Prefix, Otherwise(s) PROVE Counted'
  BY <1>12 DEF Otherwise, disk, memory, told, Counted
<1>13. ASSUME NEW r \in Runs, NEW s \in Prefix, LateCarried(r, s) PROVE Counted'
  BY <1>13 DEF LateCarried, disk, memory, told, Counted
<1> QED
  BY <1>1, <1>2, <1>3, <1>4, <1>5, <1>6, <1>7, <1>8, <1>9, <1>10, <1>11, <1>12, <1>13 DEF Next,
     Tick, Quiet

\* An order is given only where it is known on disk, and is not forgotten while it is out.
LEMMA OrdersStep ==
  ASSUME TypeOK, Owned, AtWork, InPlace, OrdersKnown, Next
  PROVE  OrdersKnown'
<1>1. ASSUME NEW r \in Runs, Opens(r) PROVE OrdersKnown'
  <2>1. \A s \in Prefix : ~(out[r][s] > 0) /\ row'.blocks[s] = Fresh
    BY <1>1, OpensDoes, NoRowIs DEF OrdersKnown, Fresh, Settling
  <2>2. cur' = r /\ restored' = {} /\ out' = out /\ pc' = "idle" BY <1>1, OpensDoes
  <2>3. \A q \in Runs \ {r} : journal'[q] = journal[q] BY <1>1, OpensDoes
  <2> QED BY <2>1, <2>2, <2>3 DEF OrdersKnown
<1>2. CASE Reopens
  BY <1>2, ReopensDoes DEF OrdersKnown, Settling, Unproven
<1>3. CASE Quiet
  BY <1>3, QuietDoes DEF OrdersKnown
<1>4. CASE Ended
  BY <1>4, EndedDoes, Typed, Places, StartupAssumption DEF Elsewhere, InPlace, OrdersKnown
<1>5. CASE Crash
  BY <1>5, StartupAssumption DEF Crash, world, OrdersKnown
<1>6. CASE Reads
  BY <1>6 DEF Reads, world, disk, OrdersKnown
<1>7. CASE Observe
  <2>1. CASE row' = row /\ journal' = journal BY <1>7, <2>1, ObserveDoes DEF OrdersKnown
  <2>2. ASSUME NEW b \in Block, Became(b), Written(b), row.blocks[at].st # "COMPLETE"
        PROVE  OrdersKnown'
    <3>1. at \notin restored => ~(out[cur][at] > 0) BY <1>7, <2>2, ObserveDoes DEF OrdersKnown
    <3>2. b.st \notin Settling => at \notin restored
      BY <2>2 DEF Became, OrdersKnown, Settling
    <3> QED BY <1>7, <2>2, <3>1, <3>2, ObserveDoes, WrittenOrders
  <2> QED BY <1>7, <2>1, <2>2, ObserveDoes
<1>8. CASE Checkpoint
  BY <1>8, CheckpointDoes, Places DEF Elsewhere, Owned, InPlace, OrdersKnown
<1>9. ASSUME NEW k \in Orders, BeforeIssue(k) PROVE OrdersKnown'
  <2>1. CASE row' = row /\ journal' = journal BY <1>9, <2>1, BeforeIssueDoes DEF OrdersKnown
  <2>2. ASSUME row.blocks[at].st \notin Settling, NEW b \in Block, Written(b), b.st = "PENDING"
        PROVE  OrdersKnown'
    <3>1. b.st \in Settling /\ row.blocks[at].st # "COMPLETE" BY <2>2 DEF Settling
    <3>2. pc = "choose" /\ pc' # "issued" BY <1>9, BeforeIssueDoes
    <3> QED BY <1>9, <2>2, <3>1, <3>2, BeforeIssueDoes, WrittenOrders
  <2> QED BY <1>9, <2>1, <2>2, BeforeIssueDoes
<1>10. CASE Issue
  BY <1>10, IssueDoes, Typed DEF disk, Owned, AtWork, InPlace, OrdersKnown, Settling
<1>11. CASE Answer
  BY <1>11, AnswerDoes DEF Carried, disk, OrdersKnown
<1>12. ASSUME NEW s \in Prefix, Otherwise(s) PROVE OrdersKnown'
  BY <1>12 DEF Otherwise, disk, memory, OrdersKnown
<1>13. ASSUME NEW r \in Runs, NEW s \in Prefix, LateCarried(r, s) PROVE OrdersKnown'
  BY <1>13 DEF LateCarried, AwaitedBy, disk, memory, OrdersKnown
<1> QED
  BY <1>1, <1>2, <1>3, <1>4, <1>5, <1>6, <1>7, <1>8, <1>9, <1>10, <1>11, <1>12, <1>13 DEF Next,
     Tick, Quiet

\* A run of its own is listed only when no other run is unresolved, and stays alone.
LEMMA RosterStep ==
  ASSUME TypeOK, Owned, AtWork, OrdersKnown, RosterClean, Next
  PROVE  RosterClean'
<1>1. ASSUME NEW r \in Runs, Opens(r) PROVE RosterClean'
  BY <1>1, OpensDoes DEF RosterClean
<1>2. CASE Reopens
  BY <1>2, ReopensDoes DEF RosterClean
<1>3. CASE Quiet
  BY <1>3, QuietDoes, StartupAssumption DEF RosterClean
<1>4. CASE Ended
  BY <1>4, EndedDoes, StartupAssumption DEF RosterClean
<1>5. CASE Crash
  BY <1>5, StartupAssumption DEF Crash, RosterClean
<1>6. CASE Reads
  BY <1>6 DEF Reads, disk, RosterClean
<1>7. CASE Observe
  BY <1>7, ObserveDoes DEF Written, Elsewhere, Owned, RosterClean
<1>8. CASE Checkpoint
  BY <1>8, CheckpointDoes DEF Elsewhere, Owned, RosterClean
<1>9. ASSUME NEW k \in Orders, BeforeIssue(k) PROVE RosterClean'
  BY <1>9, BeforeIssueDoes DEF Written, Elsewhere, Owned, RosterClean
<1>10. CASE Issue
  BY <1>10, IssueDoes DEF disk, RosterClean
<1>11. CASE Answer
  BY <1>11, AnswerDoes DEF disk, RosterClean
<1>12. ASSUME NEW s \in Prefix, Otherwise(s) PROVE RosterClean'
  BY <1>12 DEF Otherwise, disk, RosterClean
<1>13. ASSUME NEW r \in Runs, NEW s \in Prefix, LateCarried(r, s) PROVE RosterClean'
  BY <1>13 DEF LateCarried, disk, RosterClean
<1> QED
  BY <1>1, <1>2, <1>3, <1>4, <1>5, <1>6, <1>7, <1>8, <1>9, <1>10, <1>11, <1>12, <1>13 DEF Next,
     Tick, Quiet

-----------------------------------------------------------------------------
(* The theorems.                                                           *)

\* Before anything is opened.
LEMMA KeptInit ==
  ASSUME Init
  PROVE  Kept
<1>1. \A r \in Runs : journal[r] = NoRow BY DEF Init
<1>2. TypeOK BY NoRowIs, EmptyTypes, Places, StartupAssumption DEF Init, TypeOK
<1>3. Owned /\ AtWork BY <1>1 DEF Init, Owned, AtWork
<1>4. \A s \in Prefix : journal = journal /\ NoRow.blocks[s] = Fresh /\ ~(s < NoRow.at)
  BY NoRowIs, Places
<1>5. CompleteSeen BY <1>1, <1>4, StartupAssumption DEF Init, CompleteSeen, Fresh
<1>6. InPlace BY <1>1, <1>4 DEF Init, InPlace
<1>11. Untouched BY <1>1, <1>4, StartupAssumption DEF Init, Untouched
<1>7. Spent(Fresh) = 0 /\ \A s \in Prefix : BlockOK(Fresh, s)
  BY StartupAssumption DEF Spent, Settling, Fresh, BlockOK
<1>8. Counted BY <1>1, <1>4, <1>7, StartupAssumption DEF Init, Counted
<1>9. OrdersKnown BY StartupAssumption DEF Init, OrdersKnown
<1>10. RosterClean BY StartupAssumption DEF Init, RosterClean
<1> QED BY <1>2, <1>3, <1>5, <1>6, <1>8, <1>9, <1>10, <1>11 DEF Kept

\* Every step keeps the invariant.
LEMMA KeptStep ==
  ASSUME Kept, [Next]_vars
  PROVE  Kept'
<1>1. CASE Next
  BY <1>1, TypeStep, OwnedStep, AtWorkStep, CompleteStep, InPlaceStep, UntouchedStep, CountedStep,
     OrdersStep, RosterStep
     DEF Kept
<1>2. CASE UNCHANGED vars
  BY <1>2 DEF vars, world, disk, memory, told, Kept, TypeOK, Owned, AtWork, CompleteSeen, InPlace,
     Untouched, Counted,
     OrdersKnown, RosterClean
<1> QED BY <1>1, <1>2

\* It holds in every state.
LEMMA KeptAlways == Spec => []Kept
BY KeptInit, KeptStep, PTL DEF Spec

\* No step is ordered, and MAIN not entered, before every step before it was seen to be
\* so (startupRun.js open, resume, observe, beforeIssue, checkpoint), and none more often
\* than it may be.
THEOREM StepsAlwaysInOrder == Spec => []StepsInOrder
<1>1. ASSUME Kept PROVE StepsInOrder
  <2>0. TypeOK /\ CompleteSeen /\ InPlace /\ Untouched /\ Counted BY <1>1 DEF Kept
  <2>1. ASSUME NEW r \in Runs, NEW s \in Prefix, given[r][s] > 0
        PROVE  1..(s - 1) \subseteq proved[r]
    <3>1. journal[r].blocks[s] # Fresh
      <4>1. Spent(Fresh) = 0 BY DEF Spent, Fresh, Settling
      <4>2. given[r][s] <= Spent(journal[r].blocks[s]) /\ given[r][s] \in Nat
        BY <2>0, Typed DEF Counted
      <4> QED BY <2>1, <4>1, <4>2
    <3>2. s <= journal[r].at BY <2>0, <3>1, Places, Typed DEF Untouched
    <3>3. ASSUME NEW t \in 1..(s - 1) PROVE t \in Prefix /\ t < journal[r].at
      BY <2>0, <3>2, <3>3, Places, Typed, StartupAssumption DEF Prefix
    <3> QED BY <2>0, <3>3 DEF InPlace, CompleteSeen
  <2>2. ASSUME NEW r \in Runs, NEW s \in Prefix
        PROVE  given[r][s] <= IF s \in Refits THEN MaxLanded ELSE 1
    <3>1. /\ given[r][s] <= Spent(journal[r].blocks[s]) /\ BlockOK(journal[r].blocks[s], s)
          /\ given[r][s] \in Nat /\ journal[r].blocks[s] \in Block
      BY <2>0, Typed DEF Counted
    <3> QED BY <3>1, StartupAssumption DEF Spent, BlockOK, Block
  <2>3. ASSUME NEW r \in Runs, journal[r].at = Main PROVE Prefix \subseteq proved[r]
    BY <2>0, <2>3, Places DEF InPlace, CompleteSeen
  <2>4. ASSUME NEW r \in Runs, cur = r, at = Main PROVE Prefix \subseteq proved[r]
    BY <2>0, <2>4, Places, StartupAssumption DEF InPlace, CompleteSeen
  <2> QED BY <2>1, <2>2, <2>3, <2>4 DEF StepsInOrder
<1> QED BY <1>1, KeptAlways, PTL

\* What an order may be given beside, in a state that meets the invariant.
NothingUnknown ==
  pc = "issue" => \A q \in Runs, t \in Prefix :
    out[q][t] > 0 /\ journal[q].blocks[t].st # "COMPLETE" => q # cur /\ cur \in Prepared

\* A fence of this process's own order is the only one open where an order is given.
LEMMA NoneUnknown ==
  ASSUME Kept
  PROVE  NothingUnknown
<1>1. SUFFICES ASSUME pc = "issue", NEW q \in Runs, NEW t \in Prefix, out[q][t] > 0,
                      journal[q].blocks[t].st # "COMPLETE"
               PROVE  q # cur /\ cur \in Prepared
  BY DEF NothingUnknown
<1>2. TypeOK /\ Owned /\ AtWork /\ InPlace /\ OrdersKnown /\ RosterClean BY DEF Kept
<1>3. cur \in Runs /\ roster = cur /\ at \in Prefix /\ at \notin restored
      /\ journal[cur].at = at /\ journal[cur].blocks[at].st = "PENDING"
  BY <1>1, <1>2, Typed, StartupAssumption DEF Owned, AtWork, InPlace
<1>4. q # cur
  <2> SUFFICES ASSUME q = cur PROVE FALSE OBVIOUS
  <2>1. t <= at BY <1>1, <1>2, <1>3 DEF OrdersKnown
  <2>2. t >= at BY <1>1, <1>2, <1>3, Places DEF InPlace
  <2>3. t = at BY <1>3, <2>1, <2>2, Places
  <2> QED BY <1>1, <1>2, <1>3, <2>3 DEF OrdersKnown
<1>5. journal[q].blocks[t].st \in {"PENDING", "BLOCKED"} BY <1>1, <1>2 DEF OrdersKnown, Settling
<1>6. cur \in Prepared BY <1>2, <1>3, <1>4, <1>5 DEF RosterClean, Unproven
<1> QED BY <1>4, <1>6

\* No order is given while another one of the pilot may still be carried out, of whatever
\* step and run (beforeIssue, resume, and open's look at the runs before), but for the
\* runs of a mining operation.
THEOREM NeverBesideUnknown == Spec => NeverOnUnknown
<1> DEFINE Right == \A r, q \in Runs : \A s, t \in Prefix :
      Gives(r, s) /\ out[q][t] > 0 /\ journal[q].blocks[t].st # "COMPLETE" => q # r /\ r \in Prepared
<1>1. ASSUME Kept, [Next]_vars PROVE [Right]_vars
  <2>0. TypeOK /\ Owned /\ AtWork /\ OrdersKnown /\ NothingUnknown BY <1>1, NoneUnknown DEF Kept
  <2>1. CASE Issue
    <3>1. ASSUME NEW r \in Runs, NEW s \in Prefix, Gives(r, s) PROVE r = cur
      BY <2>0, <2>1, <3>1, IssueDoes, Typed DEF Gives
    <3>2. pc = "issue" BY <2>1 DEF Issue
    <3> QED BY <2>0, <3>1, <3>2 DEF NothingUnknown
  <2>2. CASE given' = given
    <3>1. \A r \in Runs, s \in Prefix : ~Gives(r, s) BY <2>0, <2>2, Typed DEF Gives
    <3> QED BY <3>1
  <2>3. Issue \/ given' = given
    BY <1>1 DEF Next, Tick, Opens, Flies, Reopens, Drops, Stops, Ended, Resumes, Crash, Reads,
       Observe,
       Unreadable, Checkpoint, MainTick, Waits, BeforeIssue, Answer, Otherwise, LateCarried, vars, told
  <2> QED BY <2>1, <2>2, <2>3
<1>2. Kept /\ [Next]_vars => [Right]_vars BY <1>1
<1> QED BY <1>2, KeptAlways, PTL DEF Spec, NeverOnUnknown
=============================================================================
