SPECIFICATION Spec
CONSTANTS
  l1 = l1
  l2 = l2
  w1 = w1
  w2 = w2
  m0 = m0
  p1 = p1
  p2 = p2
  Layer = {l1, l2}
  Windows <- TwoLayers
  Menus <- OneMenu
  Wallpaper <- Znode0
  Screen = screen
  ScreenHasSize = TRUE
  ClientOwned = {w1, w2, m0}
  Rect = {r1}
  MaxAge <- Ages
INVARIANTS NothingLost AllUnlocked
PROPERTIES NotedIsShown RefreshShows
