CONSTANTS
  Tasks = {keyboard, hud, reaper}
  Keyboard = keyboard
  DEPTH = 3
SPECIFICATION NestSpec
INVARIANTS
  BodiesNotReentered
  WindowOwnsScreen
